---- MODULE Spec2Model ----
(***************************************************************************)
(* Model of layercparse: the C tokenizer (semanticc/ctoken.py), the macro  *)
(* registry and expansion engine (layercparse/macro.py), the symbol table  *)
(* builder (layercparse/codebase.py), the merge of declaration parts       *)
(* (semanticc/function.py), the result cache (layercparse/cache.py) and    *)
(* the driver (check_sources.py).                                          *)
(*                                                                         *)
(* Text is a sequence of one-character strings.  Positions are 1-based in  *)
(* the model; token ranges are reported 0-based and half-open, as Python's *)
(* match.span() reports them.                                              *)
(***************************************************************************)
EXTENDS Integers, Sequences, FiniteSets, TLC

VARIABLES
    tk,         \* TokenList.xFromText: the generator's frame and what it has yielded
    macros,     \* Macros.macros: the registry, name -> MacroParts
    in_use,     \* Macros._in_use: the names being expanded (set on the Macros object)
    in_use_stack, \* Macros._in_use_stack
    errors,     \* Macros.errors
    text,       \* per thread: the argument of its top-level expand call
    stack,      \* per thread: its Python call stack of _expand_fragment frames
    status,     \* per thread: "idle", "run", "done" or "raised"
    result,     \* per thread: what expand returned, or the exception raised
    codebase,   \* the Codebase object, the Definition objects it refers to, the scan so far
    ut,         \* Codebase.untypedef: the frame of the running call
    drv,        \* check_sources.py: the driver process
    call,       \* the last call of a function of its own: arguments and what it returned
    cache       \* cache.py: its settings, the clock, the files and the cache file on disk

\* ------------------------------------------------------------------ bounds

\* Longest text handed to the tokenizer.
MaxTokLen == 4

\* Number of items (words, calls, literals) a top-level text to expand is made of.
MaxItems == 2

\* Deepest nesting of _expand_fragment calls the model follows.
MaxDepth == 8

\* Longest argument list of a generated macro call.
MaxArgLen == 3

\* Number of updateFromText calls a Codebase receives.
MaxScans == 2

\* Number of updateFromText calls before untypedef is called.
MaxTypedefScans == 3

\* Number of source files the driver scans.
MaxFiles == 3

\* Largest error tally the driver run reaches.
MaxErrors == 4

\* Calls of Macros.add and Macros.upsert in a run.
MaxRegistered == 3

\* The clock of the file system runs from 0 to MaxTime seconds.
MaxTime == 4

\* Each file is modified at most MaxVersion - 1 times.
MaxVersion == 3

\* ------------------------------------------------------- character classes

\* The class \w (ASCII).
WordChars ==
    {"A", "B", "C", "D", "E", "F", "G", "H", "I", "J", "K", "L", "M",
     "N", "O", "P", "Q", "R", "S", "T", "U", "V", "W", "X", "Y", "Z",
     "a", "b", "c", "d", "e", "f", "g", "h", "i", "j", "k", "l", "m",
     "n", "o", "p", "q", "r", "s", "t", "u", "v", "w", "x", "y", "z",
     "0", "1", "2", "3", "4", "5", "6", "7", "8", "9", "_"}

\* Horizontal whitespace, the class [\r\t ] of the token grammar.
HSpace == {" ", "\t", "\r"}

\* The class \s, and what str.strip() removes.
WhiteSpace == HSpace \cup {"\n"}

\* The one-character operators of the token grammar that texts of the model use.
Operators == {",", "+", ".", "=", ";", "/", "*"}

IsWord(c) == c \in WordChars

\* ------------------------------------------------------------ text helpers

\* txt[a..b-1]: Python's txt[a-1:b-1] for 1-based a and exclusive end b.
Slice(txt, a, b) == IF b <= a THEN << >> ELSE SubSeq(txt, a, b - 1)

RECURSIVE Concat(_)
\* "".join(parts)
Concat(parts) ==
    IF parts = << >> THEN << >> ELSE Head(parts) \o Concat(Tail(parts))

RECURSIVE LStrip(_)
LStrip(txt) ==
    IF txt # << >> /\ Head(txt) \in WhiteSpace THEN LStrip(Tail(txt)) ELSE txt

RECURSIVE RStrip(_)
RStrip(txt) ==
    IF txt # << >> /\ txt[Len(txt)] \in WhiteSpace
    THEN RStrip(SubSeq(txt, 1, Len(txt) - 1)) ELSE txt

\* str.strip()
Strip(txt) == RStrip(LStrip(txt))

\* Position after the maximal run of characters of class cls starting at i.
RECURSIVE RunEnd(_, _, _)
RunEnd(txt, i, cls) ==
    IF i <= Len(txt) /\ txt[i] \in cls THEN RunEnd(txt, i + 1, cls) ELSE i

\* Whether s occurs in txt at position i.
StartsAt(txt, i, s) ==
    /\ i + Len(s) - 1 <= Len(txt)
    /\ \A k \in 1..Len(s) : txt[i + k - 1] = s[k]

\* \b at position i: exactly one of the characters around it is a word character.
WordBoundary(txt, i) ==
    LET before == i > 1 /\ i - 1 <= Len(txt) /\ IsWord(txt[i - 1])
        after  == i >= 1 /\ i <= Len(txt) /\ IsWord(txt[i])
    IN  before # after

\* ----------------------------------------------------------- token grammar

\* (?: [^\\\n] | \\. )*+ : the rest of a directive or line comment.
RECURSIVE LineBody(_, _)
LineBody(txt, j) ==
    IF j > Len(txt) THEN j
    ELSE IF txt[j] = "\n" THEN j
    ELSE IF txt[j] = "\\" THEN (IF j + 1 <= Len(txt) THEN LineBody(txt, j + 2) ELSE j)
    ELSE LineBody(txt, j + 1)

\* (?> (?: \# | \/\/ ) (?: [^\\\n] | \\. )*+ \n) at i, where txt[i] = "#".
DirectiveEnd(txt, i) ==
    LET j == LineBody(txt, i + 1)
    IN  IF j <= Len(txt) /\ txt[j] = "\n" THEN j + 1 ELSE 0

\* (?> [^\\"] | \\. )* : the inside of a string literal.
RECURSIVE StrBody(_, _)
StrBody(txt, j) ==
    IF j > Len(txt) THEN j
    ELSE IF txt[j] = "\"" THEN j
    ELSE IF txt[j] = "\\" THEN (IF j + 1 <= Len(txt) THEN StrBody(txt, j + 2) ELSE j)
    ELSE StrBody(txt, j + 1)

\* (?> " (?> [^\\"] | \\. )* " ) at i, where txt[i] is the double quote.
StringEnd(txt, i) ==
    LET j == StrBody(txt, i + 1)
    IN  IF j <= Len(txt) /\ txt[j] = "\"" THEN j + 1 ELSE 0

\* (?> \/\/ (?: [^\\\n] | \\. )*+ \n) at i: a line comment needs its newline.
LineCommentEnd(txt, i) ==
    IF StartsAt(txt, i, <<"/", "/">>)
    THEN LET j == LineBody(txt, i + 2)
         IN  IF j <= Len(txt) /\ txt[j] = "\n" THEN j + 1 ELSE 0
    ELSE 0

\* (?: [^*] | \*[^\/] )*+ : the inside of a block comment; a star takes the
\* character after it along, and the possessive loop gives nothing back.
RECURSIVE BlockBody(_, _)
BlockBody(txt, j) ==
    IF j > Len(txt) THEN j
    ELSE IF txt[j] # "*" THEN BlockBody(txt, j + 1)
    ELSE IF j + 1 <= Len(txt) /\ txt[j + 1] # "/" THEN BlockBody(txt, j + 2)
    ELSE j

\* (?> \/\* (?: [^*] | \*[^\/] )*+ \*\/ ) at i
BlockCommentEnd(txt, i) ==
    IF StartsAt(txt, i, <<"/", "*">>)
    THEN LET j == BlockBody(txt, i + 2)
         IN  IF StartsAt(txt, j, <<"*", "/">>) THEN j + 2 ELSE 0
    ELSE 0

\* (?> [^\\'] | \\. )* : the inside of a character literal.
RECURSIVE CharBody(_, _)
CharBody(txt, j) ==
    IF j > Len(txt) THEN j
    ELSE IF txt[j] = "'" THEN j
    ELSE IF txt[j] = "\\" THEN (IF j + 1 <= Len(txt) THEN CharBody(txt, j + 2) ELSE j)
    ELSE CharBody(txt, j + 1)

\* (?> ' (?> [^\\'] | \\. )* ' ) at i, where txt[i] is the quote.
CharEnd(txt, i) ==
    LET j == CharBody(txt, i + 1)
    IN  IF j <= Len(txt) /\ txt[j] = "'" THEN j + 1 ELSE 0

\* The line comment or block comment at i: the position after it, or 0.
CommentEnd(txt, i) ==
    IF StartsAt(txt, i, <<"/", "/">>) THEN LineCommentEnd(txt, i)
    ELSE BlockCommentEnd(txt, i)

\* One TOKEN of the grammar at position i: the position after it, or 0 when no
\* alternative matches.  preproc selects re_token_preproc, where # and ## are
\* operators; otherwise # starts a directive that runs to the end of the line.
\* The first alternative that matched, else the next one.
OrElse(end, other) == IF end # 0 THEN end ELSE other

\* \) at j: the position after it, or 0.
ParenClose(txt, j) == IF j <= Len(txt) /\ txt[j] = ")" THEN j + 1 ELSE 0

RECURSIVE TOKEN(_, _, _)
RECURSIVE TokenStar(_, _, _)
RECURSIVE TokenStarFrom(_, _, _, _)
TOKEN(txt, i, preproc) ==
    IF i > Len(txt) THEN 0
    ELSE IF txt[i] = "#" THEN
        (IF preproc
         THEN (IF i + 1 <= Len(txt) /\ txt[i + 1] = "#" THEN i + 2 ELSE i + 1)
         ELSE DirectiveEnd(txt, i))
    ELSE IF txt[i] = "\"" THEN StringEnd(txt, i)
    ELSE IF txt[i] = "'" THEN CharEnd(txt, i)
    ELSE IF txt[i] = "/" THEN OrElse(CommentEnd(txt, i), i + 1)
    ELSE IF txt[i] = "(" THEN ParenClose(txt, TokenStar(txt, i + 1, preproc))
    ELSE IF txt[i] = "\n" THEN i + 1
    ELSE IF txt[i] \in HSpace THEN RunEnd(txt, i, HSpace)
    ELSE IF txt[i] = "\\" THEN (IF i + 1 <= Len(txt) THEN i + 2 ELSE 0)
    ELSE IF txt[i] \in Operators THEN i + 1
    ELSE IF IsWord(txt[i]) THEN RunEnd(txt, i, WordChars)
    ELSE 0

\* (?&TOKEN)* from position i: the position after the greedy run of tokens.
TokenStar(txt, i, preproc) ==
    IF i > Len(txt) THEN i
    ELSE TokenStarFrom(txt, i, TOKEN(txt, i, preproc), preproc)

\* The run goes on after a token that ended at j, and ends at i when j is 0.
TokenStarFrom(txt, i, j, preproc) ==
    IF j = 0 THEN i ELSE TokenStar(txt, j, preproc)

\* reg_token, the tokenizer's pattern.
reg_token(txt, i) == TOKEN(txt, i, FALSE)

\* reg_token_preproc, the pattern macro bodies are validated with.
reg_token_preproc(txt, i) == TOKEN(txt, i, TRUE)

\* finditer: the first position at or after i where the pattern matches, or 0.
RECURSIVE FindToken(_, _, _)
FindToken(txt, i, preproc) ==
    IF i > Len(txt) THEN 0
    ELSE IF TOKEN(txt, i, preproc) # 0 THEN i
    ELSE FindToken(txt, i + 1, preproc)

\* is_wellformed: every match starts where the previous one ended and the last
\* one ends at the end of the text.
RECURSIVE WellformedFrom(_, _)
WellformedFrom(txt, offset) ==
    LET s == FindToken(txt, offset, TRUE)
    IN  IF s = 0 THEN offset = Len(txt) + 1
        ELSE IF s # offset THEN FALSE
        ELSE WellformedFrom(txt, reg_token_preproc(txt, s))

is_wellformed(txt) == WellformedFrom(txt, 1)

\* ------------------------------------------------------------- enumeration

\* All texts of at most n characters over the alphabet.
RECURSIVE TextsUpTo(_, _)
TextsUpTo(alphabet, n) ==
    IF n = 0 THEN {<< >>}
    ELSE LET shorter == TextsUpTo(alphabet, n - 1)
         IN  shorter \cup {Append(t, c) : t \in shorter, c \in alphabet}

\* ------------------------------------------------- TokenList.xFromText

\* Token(idx, range, value)
Token(idx, range, value) == [idx |-> idx, range |-> range, value |-> value]

\* One iteration of the generator's loop over reg_token.finditer(txt): the next
\* match is yielded with the running index i and its span, then i is incremented.
\* The generator is exhausted when no further match exists.
xFromText_Yield_SameIndex(g) ==
    LET s == FindToken(g.txt, g.pos, FALSE)
        e == reg_token(g.txt, s)
    IN  [g EXCEPT !.out = Append(@, Token(g.i, <<s - 1, e - 1>>, Slice(g.txt, s, e))),
                  !.pos = e]

xFromText_Yield(g) ==
    LET s == FindToken(g.txt, g.pos, FALSE)
        e == reg_token(g.txt, s)
    IN  [g EXCEPT !.out = Append(@, Token(g.i, <<s - 1, e - 1>>, Slice(g.txt, s, e))),
                  !.pos = e,
                  !.i = @ + 1]

xFromText_Start(txt) == [txt |-> txt, pos |-> 1, i |-> 0, out |-> << >>, done |-> FALSE]

\* The whole token sequence, as list(TokenList.xFromText(txt)) builds it.
RECURSIVE xFromText_Run(_)
xFromText_Run(g) ==
    IF FindToken(g.txt, g.pos, FALSE) = 0 THEN g.out
    ELSE xFromText_Run(xFromText_Yield(g))

fromText(txt) == xFromText_Run(xFromText_Start(txt))

\* The characters tokenizer inputs are drawn from.
TokAlphabet == {"a", "(", ")", "\"", ","}

TokStart == tk \in {xFromText_Start(t) : t \in TextsUpTo(TokAlphabet, MaxTokLen)}

TokYield ==
    /\ ~tk.done
    /\ FindToken(tk.txt, tk.pos, FALSE) # 0
    /\ tk' = xFromText_Yield(tk)

TokStop ==
    /\ ~tk.done
    /\ FindToken(tk.txt, tk.pos, FALSE) = 0
    /\ tk' = [tk EXCEPT !.done = TRUE]

TokNext == TokYield \/ TokStop



\* ---------------------------------------------------------------- C10

\* Bracket depth and string state of a text, counted character by character:
\* the text closes every bracket and every string literal it opens.
RECURSIVE BalancedFrom(_, _, _, _)
BalancedFrom(txt, i, depth, instr) ==
    IF i > Len(txt) THEN depth = 0 /\ ~instr
    ELSE IF instr THEN BalancedFrom(txt, i + 1, depth, txt[i] # "\"")
    ELSE IF txt[i] = "\"" THEN BalancedFrom(txt, i + 1, depth, TRUE)
    ELSE IF txt[i] = "(" THEN BalancedFrom(txt, i + 1, depth + 1, FALSE)
    ELSE IF txt[i] = ")" THEN depth > 0 /\ BalancedFrom(txt, i + 1, depth - 1, FALSE)
    ELSE BalancedFrom(txt, i + 1, depth, FALSE)

Balanced(txt) == BalancedFrom(txt, 1, 0, FALSE)

\* The yielded ranges leave no character of the text outside every token.
TokPartition ==
    /\ (tk.out = << >>) => tk.txt = << >>
    /\ (tk.out # << >>) =>
          /\ tk.out[1].range[1] = 0
          /\ tk.out[Len(tk.out)].range[2] = Len(tk.txt)
    /\ \A k \in 1..(Len(tk.out) - 1) : tk.out[k + 1].range[1] = tk.out[k].range[2]

VA_ARGS == <<"_", "_", "V", "A", "_", "A", "R", "G", "S", "_", "_">>

Ellipsis == <<".", ".", ".">>

\* MacroParts as the dataclass holds it.  has_args is "args is not None",
\* has_body is "body is not None" (a Token is truthy whatever its text, so
\* "not macro.body" is exactly "body is None").  __post_init__ sets
\* is_wellformed from the body text.
MacroParts(name, has_args, args, has_body, body, is_va_args) ==
    [name |-> name, has_args |-> has_args, args |-> args,
     has_body |-> has_body, body |-> body, is_va_args |-> is_va_args,
     is_wellformed |-> IF has_body THEN is_wellformed(body) ELSE TRUE]

\* MacroParts.fromStatement for "#define name[(arg_words)] body": a trailing
\* "..." among the parameter words becomes __VA_ARGS__ and sets is_va_args.
\* The body is always a Token, also when its text is empty.
fromStatement(name, has_args, arg_words, body) ==
    LET va == has_args /\ arg_words # << >> /\ arg_words[Len(arg_words)] = Ellipsis
        args == IF va THEN [arg_words EXCEPT ![Len(arg_words)] = VA_ARGS] ELSE arg_words
    IN  MacroParts(name, has_args, args, TRUE, body, va)

\* A registry (Macros.macros) holding the given macros, keyed by name.
Registry(ms) == [n \in {m.name : m \in ms} |-> CHOOSE m \in ms : m.name = n]

obj_like_names(reg) == {n \in DOMAIN reg : ~reg[n].has_args}

fn_like_names(reg) == {n \in DOMAIN reg : reg[n].has_args}

\* ------------------------------------------------- Macros.expand: _names_reg

\* \b(?:\L<names>)\b at i: the position after the name, or 0.  Names consist of
\* word characters, so the name is the whole word that starts at i.
NameEnd(txt, i, names) ==
    IF i <= Len(txt) /\ IsWord(txt[i]) /\ WordBoundary(txt, i)
    THEN LET e == RunEnd(txt, i, WordChars)
         IN  IF Slice(txt, i, e) \in names THEN e ELSE 0
    ELSE 0

NoMatch == [kind |-> "none", start |-> 0, end |-> 0, name |-> << >>, list |-> << >>]

\* The alternation compiled by expand, tried at position i, in its order:
\* directive or line comment, block comment, string, character literal, an
\* object-like name, a function-like name followed by optional whitespace and
\* a parenthesized (?&TOKEN)*+ list.
names_reg_at(reg, txt, i) ==
    LET skip == IF txt[i] = "#" THEN DirectiveEnd(txt, i)
                ELSE IF txt[i] = "\"" THEN StringEnd(txt, i)
                ELSE IF txt[i] = "'" THEN CharEnd(txt, i)
                ELSE CommentEnd(txt, i)
        obj  == NameEnd(txt, i, obj_like_names(reg))
        fn   == NameEnd(txt, i, fn_like_names(reg))
        open == RunEnd(txt, fn, WhiteSpace)
        close == TokenStar(txt, open + 1, FALSE)
    IN  IF skip # 0 THEN [NoMatch EXCEPT !.kind = "skip", !.start = i, !.end = skip]
        ELSE IF obj # 0
        THEN [NoMatch EXCEPT !.kind = "obj", !.start = i, !.end = obj,
                             !.name = Slice(txt, i, obj)]
        ELSE IF /\ fn # 0
                /\ open <= Len(txt) /\ txt[open] = "("
                /\ close <= Len(txt) /\ txt[close] = ")"
        THEN [NoMatch EXCEPT !.kind = "fn", !.start = i, !.end = close + 1,
                             !.name = Slice(txt, i, fn),
                             !.list = Slice(txt, open + 1, close)]
        ELSE NoMatch

\* The next match of _names_reg.sub at or after pos (kind "none" when there is none).
RECURSIVE names_reg_search(_, _, _)
names_reg_search(reg, txt, pos) ==
    IF pos > Len(txt) THEN NoMatch
    ELSE LET m == names_reg_at(reg, txt, pos)
         IN  IF m.kind # "none" THEN m ELSE names_reg_search(reg, txt, pos + 1)

\* ----------------------------------------- _expand_fn_like: argument parsing

\* The loop over TokenList.xFromText(match["list"]): args_val after the tokens
\* from k on, given args_val so far.
RECURSIVE ParseArgsLoop(_, _, _, _, _)
ParseArgsLoop(tokens, k, args_val, nargs, is_va_args) ==
    IF k > Len(tokens) THEN args_val
    ELSE IF tokens[k].value = <<",">> /\ Len(args_val) < nargs
    THEN ParseArgsLoop(tokens, k + 1, Append(args_val, << >>), nargs, is_va_args)
    ELSE IF tokens[k].value = <<",">> /\ ~is_va_args
    THEN args_val
    ELSE ParseArgsLoop(tokens, k + 1,
             [args_val EXCEPT ![Len(args_val)] = Append(@, tokens[k].value)],
             nargs, is_va_args)

ParseArgs_DropSurplus(list, nargs, is_va_args) ==
    ParseArgsLoop(fromText(list), 1, << << >> >>, nargs, FALSE)

\* args_val for the argument list text of a call of a macro with nargs
\* parameters: one list of token texts per argument.
ParseArgs(list, nargs, is_va_args) ==
    ParseArgsLoop(fromText(list), 1, << << >> >>, nargs, is_va_args)

\* "".join(v.strings()).strip(): the raw text of one argument.
RawArg(arg_tokens) == Strip(Concat(arg_tokens))

\* ------------------------------------------------------- c_string_escape

\* str.replace(ch, rep) for a one-character ch.
RECURSIVE Replace(_, _, _)
Replace(txt, ch, rep) ==
    IF txt = << >> THEN << >>
    ELSE (IF Head(txt) = ch THEN rep ELSE <<Head(txt)>>) \o Replace(Tail(txt), ch, rep)

\* txt.replace("\\", "\\\\").replace("\n", "\\n").replace("\t", "\\t").replace("\"", "\\\"")
c_string_escape(txt) ==
    Replace(Replace(Replace(Replace(txt, "\\", <<"\\", "\\">>),
                            "\n", <<"\\", "n">>),
                    "\t", <<"\\", "t">>),
            "\"", <<"\\", "\"">>)

\* ------------------------------------- _expand_fn_like: body substitution

\* {k.value: v for k, v in zip(macro.args, vals)}: a later parameter of the
\* same name overrides an earlier one.
ArgsDict(args, vals) ==
    [n \in {args[k] : k \in 1..Len(args)} |->
        vals[CHOOSE k \in 1..Len(args) :
                /\ args[k] = n
                /\ \A j \in (k + 1)..Len(args) : args[j] # n]]

\* (?>\s*+(\#\#)\s*+(?P<n>\w++))++ after a word that ends before position e:
\* the end of the chain and the operands captured, ns being those so far.
RECURSIVE HHChain(_, _, _)
HHChain(body, e, ns) ==
    LET s  == RunEnd(body, e, WhiteSpace)
        s2 == RunEnd(body, s + 2, WhiteSpace)
        w  == RunEnd(body, s2, WordChars)
    IN  IF StartsAt(body, s, <<"#", "#">>) /\ w > s2
        THEN HHChain(body, w, Append(ns, Slice(body, s2, w)))
        ELSE [end |-> e, names |-> ns]

\* _concat_hh: the raw argument for an operand that is a parameter, the
\* operand itself otherwise, joined with no separator.
RECURSIVE concat_hh(_, _)
concat_hh(names, args_dict) ==
    IF names = << >> THEN << >>
    ELSE (IF Head(names) \in DOMAIN args_dict THEN args_dict[Head(names)] ELSE Head(names))
         \o concat_hh(Tail(names), args_dict)

arg_c_escape_Expanded(name, args_dict, args_dict_expanded) ==
    IF name \in DOMAIN args_dict
    THEN <<"\"">> \o c_string_escape(args_dict_expanded[name]) \o <<"\"">>
    ELSE <<"\"", "\"">>

\* _arg_c_escape: the quoted, escaped RAW argument, or "" for an unknown name.
arg_c_escape(name, args_dict, args_dict_expanded) ==
    IF name \in DOMAIN args_dict
    THEN <<"\"">> \o c_string_escape(args_dict[name]) \o <<"\"">>
    ELSE <<"\"", "\"">>

concat_operand_Expanded(names, args_dict, args_dict_expanded) ==
    concat_hh(names, args_dict_expanded)

\* The operands of a ## chain are looked up in args_dict, the raw arguments.
concat_operand(names, args_dict, args_dict_expanded) ==
    concat_hh(names, args_dict)

bare_param_Raw(name, args_dict, args_dict_expanded) == args_dict[name]

\* A bare parameter is replaced by args_dict_expanded[name].
bare_param(name, args_dict, args_dict_expanded) == args_dict_expanded[name]

\* reg_macro_subst.sub over the body from position i.  At each position, in
\* this order: "#" [spaces] word (stringize); word (## word)+ (paste); a
\* parameter name as a whole word; otherwise the character is copied.
RECURSIVE reg_macro_subst_sub(_, _, _, _)
reg_macro_subst_sub(body, i, args_dict, args_dict_expanded) ==
    IF i > Len(body) THEN << >>
    ELSE LET hs   == RunEnd(body, i + 1, WhiteSpace)
             hw   == RunEnd(body, hs, WordChars)
             w1   == RunEnd(body, i, WordChars)
             hh   == HHChain(body, w1, <<Slice(body, i, w1)>>)
             bare == NameEnd(body, i, DOMAIN args_dict)
         IN  IF body[i] = "#" /\ hw > hs
             THEN arg_c_escape(Slice(body, hs, hw), args_dict, args_dict_expanded)
                  \o reg_macro_subst_sub(body, hw, args_dict, args_dict_expanded)
             ELSE IF IsWord(body[i]) /\ Len(hh.names) >= 2
             THEN concat_operand(hh.names, args_dict, args_dict_expanded)
                  \o reg_macro_subst_sub(body, hh.end, args_dict, args_dict_expanded)
             ELSE IF bare # 0
             THEN bare_param(Slice(body, i, bare), args_dict, args_dict_expanded)
                  \o reg_macro_subst_sub(body, bare, args_dict, args_dict_expanded)
             ELSE <<body[i]>>
                  \o reg_macro_subst_sub(body, i + 1, args_dict, args_dict_expanded)

\* The substituted body of a call: macro.body.value when the macro has no
\* parameters, otherwise the body with #, ## and parameters replaced.
Substitute(macro, raw, expanded) ==
    IF macro.args = << >> THEN macro.body
    ELSE reg_macro_subst_sub(macro.body, 1,
                             ArgsDict(macro.args, raw), ArgsDict(macro.args, expanded))

\* ------------------------------------------- expand, run alone (sequential)

\* The raw arguments of a call, one per entry of args_val.
RawArgs(args_val) == [k \in 1..Len(args_val) |-> RawArg(args_val[k])]

\* The result of _expand_fragment(txt[pos:]) under the guard in_use_now, when no
\* other call touches the guard: the callbacks run to completion in order.
RECURSIVE expand_fragment_alone(_, _, _, _)
expand_fragment_alone(reg, txt, pos, in_use_now) ==
    LET m == names_reg_search(reg, txt, pos)
        m0 == Slice(txt, m.start, m.end)
        macro == reg[m.name]
        args_val == ParseArgs(m.list, Len(macro.args), macro.is_va_args)
        raw == RawArgs(args_val)
        expanded == [k \in 1..Len(raw) |-> expand_fragment_alone(reg, raw[k], 1, in_use_now)]
        replacement ==
            IF m.kind = "skip" THEN m0
            ELSE IF m.name \in in_use_now THEN m0
            ELSE IF ~macro.has_body THEN << >>
            ELSE IF m.kind = "obj"
            THEN expand_fragment_alone(reg, macro.body, 1, in_use_now \cup {m.name})
            ELSE IF Len(args_val) < Len(macro.args) THEN m0
            ELSE expand_fragment_alone(reg, Substitute(macro, raw, expanded), 1,
                                       in_use_now \cup {m.name})
    IN  IF m.kind = "none" THEN Slice(txt, pos, Len(txt) + 1)
        ELSE Slice(txt, pos, m.start) \o replacement
             \o expand_fragment_alone(reg, txt, m.end, in_use_now)

\* Whether expand(txt) run alone raises: the callback reads match["args"], a
\* group the pattern only has when the registry holds a function-like macro.
raises_alone(reg, txt) ==
    /\ DOMAIN reg # {}
    /\ fn_like_names(reg) = {}
    /\ names_reg_search(reg, txt, 1).kind # "none"

\* expand(txt) run alone, when it does not raise.
expand_alone(reg, txt) ==
    IF DOMAIN reg = {} THEN txt ELSE expand_fragment_alone(reg, txt, 1, {})

\* ------------------------------------------------------- expand: the state

Threads == {1, 2}

\* No callback is running in the frame: regex.sub is scanning.
NoCallback ==
    [pc |-> "scan", name |-> << >>, m0 |-> << >>,
     raw |-> << >>, expanded |-> << >>, replacement |-> << >>]

\* One call of _expand_fragment(txt): regex.sub has copied and substituted up
\* to pos, giving out; ret names the caller ("top": expand, "obj":
\* _expand_obj_like, "arg" and "body": _expand_fn_like); callback is the state
\* of the substitution callback running for the current match.
Frame(txt, ret) ==
    [txt |-> txt, pos |-> 1, out |-> << >>, ret |-> ret, callback |-> NoCallback]

Top(t) == stack[t][Len(stack[t])]

Scanning(t) ==
    /\ status[t] = "run"
    /\ stack[t] # << >>
    /\ Top(t).callback.pc = "scan"

InCallback(t, pc) ==
    /\ status[t] = "run"
    /\ stack[t] # << >>
    /\ Top(t).callback.pc = pc

\* The match regex.sub hands to the callback next, in thread t's top frame.
NextMatch(t) == names_reg_search(macros, Top(t).txt, Top(t).pos)

\* The frame once regex.sub has copied the text before match m and is in the
\* callback for m.
AtMatch(f, m) ==
    [f EXCEPT !.out = @ \o Slice(f.txt, f.pos, m.start), !.pos = m.end]

\* The callback returns s: regex.sub appends it and goes on scanning.
Returned(f, s) == [f EXCEPT !.out = @ \o s, !.callback = NoCallback]

SetTop(t, f) == [stack EXCEPT ![t][Len(stack[t])] = f]

Push(t, f, g) == [stack EXCEPT ![t] = Append(SubSeq(@, 1, Len(@) - 1), f) \o <<g>>]

\* An exception propagates out of expand: the frames unwind, the guard stays
\* as it is (nothing restores it).
Raise(t, exc) ==
    /\ status' = [status EXCEPT ![t] = "raised"]
    /\ result' = [result EXCEPT ![t] = exc]
    /\ stack' = [stack EXCEPT ![t] = << >>]

Guarded_Never(name) == FALSE

\* "if name in self._in_use: return match[0]"
Guarded(name) == name \in in_use

\* "if len(args_val) < len(macro.args)"
TooFewArgs(args_val, macro) == Len(args_val) < Len(macro.args)

GuardVars == <<in_use, in_use_stack>>

\* ----------------------------------------------------- expand: the actions

\* Macros.expand(txt) up to its call of _expand_fragment: with an empty registry
\* it returns txt; otherwise it compiles _names_reg and resets the guard and the
\* error list, all attributes of the Macros object.
ExpandCall(t) ==
    /\ status[t] = "idle"
    /\ IF DOMAIN macros = {}
       THEN /\ status' = [status EXCEPT ![t] = "done"]
            /\ result' = [result EXCEPT ![t] = text[t]]
            /\ UNCHANGED <<in_use, in_use_stack, errors, stack>>
       ELSE /\ in_use' = {}
            /\ in_use_stack' = << >>
            /\ errors' = << >>
            /\ stack' = [stack EXCEPT ![t] = <<Frame(text[t], "top")>>]
            /\ status' = [status EXCEPT ![t] = "run"]
            /\ UNCHANGED result
    /\ UNCHANGED <<tk, macros, text>>

\* The callback of _expand_fragment evaluates match["args"] first.  The pattern
\* has that group only when the registry holds a function-like macro; without
\* one, the lookup raises IndexError ("no such group") for any match.
RaiseNoSuchGroup(t) ==
    /\ Scanning(t)
    /\ NextMatch(t).kind # "none"
    /\ fn_like_names(macros) = {}
    /\ Raise(t, <<"IndexError">>)
    /\ UNCHANGED <<tk, macros, in_use, in_use_stack, errors, text>>

\* A directive, comment or string matched: neither args nor name is set, the
\* callback returns match[0].
EmitVerbatim(t) ==
    LET m == NextMatch(t) IN
    /\ Scanning(t)
    /\ m.kind = "skip"
    /\ fn_like_names(macros) # {}
    /\ stack' = SetTop(t, Returned(AtMatch(Top(t), m), Slice(Top(t).txt, m.start, m.end)))
    /\ UNCHANGED <<tk, macros, in_use, in_use_stack, errors, text, status, result>>

\* _expand_obj_like up to the guard entry: a name in use is returned as
\* matched, a macro without body gives the empty text.
ExpandObjLike(t) ==
    LET m  == NextMatch(t)
        m0 == Slice(Top(t).txt, m.start, m.end)
        f  == AtMatch(Top(t), m)
    IN
    /\ Scanning(t)
    /\ m.kind = "obj"
    /\ fn_like_names(macros) # {}
    /\ stack' = SetTop(t,
          IF Guarded(m.name) THEN Returned(f, m0)
          ELSE IF ~macros[m.name].has_body THEN Returned(f, << >>)
          ELSE [f EXCEPT !.callback =
                   [NoCallback EXCEPT !.pc = "obj_add", !.name = m.name, !.m0 = m0]])
    /\ UNCHANGED <<tk, macros, in_use, in_use_stack, errors, text, status, result>>

\* self._in_use.add(name)
GuardAdd(t, pc, next) ==
    /\ InCallback(t, pc)
    /\ in_use' = in_use \cup {Top(t).callback.name}
    /\ stack' = SetTop(t, [Top(t) EXCEPT !.callback.pc = next])
    /\ UNCHANGED <<tk, macros, in_use_stack, errors, text, status, result>>

\* self._in_use_stack.append(name), then the call of _expand_fragment(txt).
GuardPush(t, pc, next, txt, ret) ==
    /\ InCallback(t, pc)
    /\ Len(stack[t]) < MaxDepth
    /\ in_use_stack' = Append(in_use_stack, Top(t).callback.name)
    /\ stack' = Push(t, [Top(t) EXCEPT !.callback.pc = next], Frame(txt, ret))
    /\ UNCHANGED <<tk, macros, in_use, errors, text, status, result>>

\* self._in_use_stack.pop(): IndexError on an empty list.
GuardPop(t, pc, next) ==
    /\ InCallback(t, pc)
    /\ IF in_use_stack = << >>
       THEN /\ Raise(t, <<"IndexError">>)
            /\ UNCHANGED in_use_stack
       ELSE /\ in_use_stack' = SubSeq(in_use_stack, 1, Len(in_use_stack) - 1)
            /\ stack' = SetTop(t, [Top(t) EXCEPT !.callback.pc = next])
            /\ UNCHANGED <<status, result>>
    /\ UNCHANGED <<tk, macros, in_use, errors, text>>

\* The set after self._in_use.remove(name).
in_use_remove_Keep(s, name) == s

in_use_remove(s, name) == s \ {name}

\* self._in_use.remove(name): KeyError when the name is not in the set; then
\* "return replacement".
GuardRemove(t, pc) ==
    /\ InCallback(t, pc)
    /\ IF Top(t).callback.name \notin in_use
       THEN /\ Raise(t, <<"KeyError">>)
            /\ UNCHANGED in_use
       ELSE /\ in_use' = in_use_remove(in_use, Top(t).callback.name)
            /\ stack' = SetTop(t, Returned(Top(t), Top(t).callback.replacement))
            /\ UNCHANGED <<status, result>>
    /\ UNCHANGED <<tk, macros, in_use_stack, errors, text>>

ObjAdd(t) == GuardAdd(t, "obj_add", "obj_push")

ObjPush(t) ==
    GuardPush(t, "obj_push", "obj_wait", macros[Top(t).callback.name].body, "obj")

ObjPop(t) == GuardPop(t, "obj_pop", "obj_rm")

ObjRemove(t) == GuardRemove(t, "obj_rm")

\* _expand_fn_like up to the argument expansion: the guard, the body test, the
\* argument parsing and the arity test, which records an error and returns the
\* call as matched.
ExpandFnLike(t) ==
    LET m  == NextMatch(t)
        m0 == Slice(Top(t).txt, m.start, m.end)
        f  == AtMatch(Top(t), m)
        macro == macros[m.name]
        args_val == ParseArgs(m.list, Len(macro.args), macro.is_va_args)
        few == ~Guarded(m.name) /\ macro.has_body /\ TooFewArgs(args_val, macro)
    IN
    /\ Scanning(t)
    /\ m.kind = "fn"
    /\ errors' = IF few
                 THEN Append(errors, [macro |-> m.name, got |-> Len(args_val),
                                      expected |-> Len(macro.args)])
                 ELSE errors
    /\ stack' = SetTop(t,
          IF Guarded(m.name) THEN Returned(f, m0)
          ELSE IF ~macro.has_body THEN Returned(f, << >>)
          ELSE IF few THEN Returned(f, m0)
          ELSE [f EXCEPT !.callback =
                   [pc |-> IF macro.args = << >> THEN "fn_add" ELSE "fn_args",
                    name |-> m.name, m0 |-> m0,
                    raw |-> SubSeq(RawArgs(args_val), 1, Len(macro.args)),
                    expanded |-> << >>,
                    replacement |-> macro.body]])
    /\ UNCHANGED <<tk, macros, in_use, in_use_stack, text, status, result>>

\* args_dict_expanded: _expand_fragment(v.value) for the next argument.
FnExpandArg(t) ==
    LET cb == Top(t).callback IN
    /\ InCallback(t, "fn_args")
    /\ Len(cb.expanded) < Len(cb.raw)
    /\ Len(stack[t]) < MaxDepth
    /\ stack' = Push(t, [Top(t) EXCEPT !.callback.pc = "fn_wait"],
                     Frame(cb.raw[Len(cb.expanded) + 1], "arg"))
    /\ UNCHANGED <<tk, macros, in_use, in_use_stack, errors, text, status, result>>

\* reg_macro_subst.sub(..., replacement), once every argument is expanded.
FnSubst(t) ==
    LET cb == Top(t).callback IN
    /\ InCallback(t, "fn_args")
    /\ Len(cb.expanded) = Len(cb.raw)
    /\ stack' = SetTop(t, [Top(t) EXCEPT
          !.callback.replacement = Substitute(macros[cb.name], cb.raw, cb.expanded),
          !.callback.pc = "fn_add"])
    /\ UNCHANGED <<tk, macros, in_use, in_use_stack, errors, text, status, result>>

FnAdd(t) == GuardAdd(t, "fn_add", "fn_push")

FnPush(t) == GuardPush(t, "fn_push", "fn_wait", Top(t).callback.replacement, "body")

FnPop(t) == GuardPop(t, "fn_pop", "fn_rm")

FnRemove(t) == GuardRemove(t, "fn_rm")

\* regex.sub finds no further match in a nested _expand_fragment: it returns
\* the text built to its caller, which resumes after the call.
FragmentReturn(t) ==
    LET child  == Top(t)
        value  == child.out \o Slice(child.txt, child.pos, Len(child.txt) + 1)
        parent == stack[t][Len(stack[t]) - 1]
        resumed ==
            IF child.ret = "arg"
            THEN [parent EXCEPT !.callback.expanded = Append(@, value),
                                !.callback.pc = "fn_args"]
            ELSE [parent EXCEPT !.callback.replacement = value,
                                !.callback.pc = IF child.ret = "obj" THEN "obj_pop"
                                                ELSE "fn_pop"]
    IN
    /\ Scanning(t)
    /\ Len(stack[t]) > 1
    /\ NextMatch(t).kind = "none"
    /\ stack' = [stack EXCEPT ![t] = Append(SubSeq(@, 1, Len(@) - 2), resumed)]
    /\ UNCHANGED <<tk, macros, in_use, in_use_stack, errors, text, status, result>>

\* regex.sub finds no further match in the top-level text: expand returns.
Finish(t) ==
    /\ Scanning(t)
    /\ Len(stack[t]) = 1
    /\ NextMatch(t).kind = "none"
    /\ status' = [status EXCEPT ![t] = "done"]
    /\ result' = [result EXCEPT ![t] =
          Top(t).out \o Slice(Top(t).txt, Top(t).pos, Len(Top(t).txt) + 1)]
    /\ stack' = [stack EXCEPT ![t] = << >>]
    /\ UNCHANGED <<tk, macros, in_use, in_use_stack, errors, text>>

Step(t) ==
    \/ ExpandCall(t)
    \/ RaiseNoSuchGroup(t)
    \/ EmitVerbatim(t)
    \/ ExpandObjLike(t)
    \/ ObjAdd(t)
    \/ ObjPush(t)
    \/ ObjPop(t)
    \/ ObjRemove(t)
    \/ ExpandFnLike(t)
    \/ FnExpandArg(t)
    \/ FnSubst(t)
    \/ FnAdd(t)
    \/ FnPush(t)
    \/ FnPop(t)
    \/ FnRemove(t)
    \/ FragmentReturn(t)
    \/ Finish(t)

\* ----------------------------------------------------------------- inputs

\* "#define FOO 1"
mFOO == fromStatement(<<"F", "O", "O">>, FALSE, << >>, <<"1">>)

\* "#define A A"
mA == fromStatement(<<"A">>, FALSE, << >>, <<"A">>)

\* "#define A B"
mAB == fromStatement(<<"A">>, FALSE, << >>, <<"B">>)

\* "#define B A"
mBA == fromStatement(<<"B">>, FALSE, << >>, <<"A">>)

\* "#define P Q" and "#define Q P ID(P)"
mP == fromStatement(<<"P">>, FALSE, << >>, <<"Q">>)

mQ == fromStatement(<<"Q">>, FALSE, << >>, <<"P", " ", "I", "D", "(", "P", ")">>)

\* "#define ID(x) x"
mID == fromStatement(<<"I", "D">>, TRUE, <<<<"x">>>>, <<"x">>)

\* "#define S(x) #x"
mS == fromStatement(<<"S">>, TRUE, <<<<"x">>>>, <<"#", "x">>)

\* "#define CAT(a,b) a##b"
mCAT == fromStatement(<<"C", "A", "T">>, TRUE, <<<<"a">>, <<"b">>>>, <<"a", "#", "#", "b">>)

\* "#define LOG(fmt,...) fmt __VA_ARGS__"
mLOG == fromStatement(<<"L", "O", "G">>, TRUE, <<<<"f", "m", "t">>, Ellipsis>>, <<"f", "m", "t">> \o <<" ">> \o VA_ARGS)

\* "#define T(x) #y # x"
mT == fromStatement(<<"T">>, TRUE, <<<<"x">>>>, <<"#", "y", " ", "#", " ", "x">>)

\* "#define K(a) a ## _q ## a"
mK == fromStatement(<<"K">>, TRUE, <<<<"a">>>>, <<"a", " ", "#", "#", " ", "_", "q", " ", "#", "#", " ", "a">>)

\* "#define G(x) G(x) x"
mG == fromStatement(<<"G">>, TRUE, <<<<"x">>>>, <<"G", "(", "x", ")", " ", "x">>)

\* "#define Z() FOO"
mZ == fromStatement(<<"Z">>, TRUE, << >>, <<"F", "O", "O">>)

\* "#define M(x) ( x": the body does not re-tokenize (an unclosed bracket).
mM == fromStatement(<<"M">>, TRUE, <<<<"x">>>>, <<"(", " ", "x">>)

\* A macro registered with a name and two parameters and no body (body is None).
mE == MacroParts(<<"E">>, TRUE, <<<<"a">>, <<"b">>>>, FALSE, << >>, FALSE)

\* The registries expand is run with.
RegEmpty == Registry({})

RegSelf == Registry({mA})

RegMutual == Registry({mAB, mBA})

RegMain == Registry({mFOO, mA, mP, mQ, mID, mS, mCAT, mLOG, mT, mK, mG, mZ, mM, mE})

\* The fragments generated texts are made of.
Items ==
    {<<"A">>,
     <<"F", "O", "O">>,
     <<" ">>,
     <<"x">>,
     <<"I", "D">>,
     <<"(", "1", ")">>,
     <<"S", "(", "F", "O", "O", ")">>,
     <<"C", "A", "T", "(", "F", "O", ",", "O", ")">>,
     <<"C", "A", "T", "(", "a", ")">>,
     <<"E", "(", "1", ")">>,
     <<"M", "(", "1", ")">>,
     <<"G", "(", "1", ")">>,
     <<"\"", "A", "\"">>,
     <<"I", "D", "(", "I", "D", "(", "A", ")", ")">>,
     <<"P">>}

\* Texts of comments and literals that hold a macro name, and of function-like
\* names without argument list.

\* a block comment: /* FOO */
tBlockComment == <<"/", "*", " ", "F", "O", "O", " ", "*", "/">>

\* a line comment with its newline: // FOO\n
tLineComment == <<"/", "/", " ", "F", "O", "O", "\n">>

\* a character literal: 'A'
tCharLiteral == <<"'", "A", "'">>

\* a string literal: "FOO"
tString == <<"\"", "F", "O", "O", "\"">>

\* a comment, then the name outside it: x /* FOO */ FOO
tCommentThenName == <<"x", " ", "/", "*", " ", "F", "O", "O", " ", "*", "/", " ", "F", "O", "O">>

\* a line comment that the end of the text closes: // FOO
tLineCommentAtEnd == <<"/", "/", " ", "F", "O", "O">>

\* a block comment closed by **/: /* FOO **/
tBlockCommentStars == <<"/", "*", " ", "F", "O", "O", " ", "*", "*", "/">>

\* a function-like name without argument list: ID x
tNameNoList == <<"I", "D", " ", "x">>

\* a function-like name without argument list, then a call: ID ID(1)
tNameThenCall == <<"I", "D", " ", "I", "D", "(", "1", ")">>

LiteralTexts ==
    {tBlockComment, tLineComment, tCharLiteral, tString, tCommentThenName,
     tLineCommentAtEnd, tBlockCommentStars, tNameNoList, tNameThenCall}

\* The texts the claims name, and further calls.
Examples ==
    LiteralTexts \cup
    {<<"x", " ", "A", " ", "y">>,
     <<"A">>,
     <<"B">>,
     <<"S", "(", "a", "+", "b", ")">>,
     <<"S", "(", "F", "O", "O", ")">>,
     <<"C", "A", "T", "(", "f", "o", "o", ",", "b", "a", "r", ")">>,
     <<"C", "A", "T", "(", "F", "O", "O", ",", "x", ")">>,
     <<"I", "D", "(", "F", "O", "O", ")">>,
     <<"L", "O", "G", "(", "\"", "x", "\"", ",", " ", "1", ",", " ", "2", ")">>,
     <<"L", "O", "G", "(", "\"", "a", ",", "b", "\"", ",", " ", "c", ")">>,
     <<"I", "D", " ", "(", "A", ",", " ", "F", "O", "O", ")">>,
     <<"L", "O", "G", "(", "a", ")">>,
     <<"S", "(", "\"", "a", "\\", "b", "\"", ")">>,
     <<"C", "A", "T", "(", "F", "O", ",", " ", "O", ")">>,
     <<"E", "(", "1", ",", "2", ")">>,
     <<"M", "(", "F", "O", "O", ")">>,
     <<"Z", "(", ")">>,
     <<"Z", "(", "1", ",", "2", ")">>,
     <<"#", "A", "\n", "A">>,
     <<"T", "(", "F", "O", "O", ")">>,
     <<"K", "(", "F", "O", "O", ")">>,
     <<"I", "D", "(", "(", "A", ",", "B", ")", ")">>,
     <<"L", "O", "G", "(", "a", ",", "(", "b", ",", "c", ")", ",", "d", ")">>,
     <<"G", "(", "G", "(", "1", ")", ")">>,
     <<"P", " ", "Q">>,
     <<"I", "D", "(", "1", ",", "2", ")">>,
     <<"G", "(", "1", ",", "2", ")">>}

\* All concatenations of at most n items.
RECURSIVE TextsOfItems(_)
TextsOfItems(n) ==
    IF n = 0 THEN {<< >>}
    ELSE LET shorter == TextsOfItems(n - 1)
         IN  shorter \cup {t \o i : t \in shorter, i \in Items}

\* The characters the arguments of generated stringize calls are made of.
EscAlphabet == {"a", "\\", "\"", "\n", "\t"}

\* The characters the argument lists of generated calls are made of.
ListAlphabet == {"a", ",", "(", ")", " "}

\* name(list)
Call(name, list) == name \o <<"(">> \o list \o <<")">>

\* Calls of S, CAT and LOG with every argument list of at most MaxArgLen characters.
GeneratedCalls ==
    {Call(<<"S">>, l) : l \in TextsUpTo(EscAlphabet, MaxArgLen)}
    \cup {Call(n, l) : n \in {<<"C", "A", "T">>, <<"L", "O", "G">>}, l \in TextsUpTo(ListAlphabet, MaxArgLen)}

Texts == Examples \cup TextsOfItems(MaxItems) \cup GeneratedCalls

\* The texts two concurrent calls are run with.
ThreadTexts == {<<"A">>, <<"I", "D", "(", "A", ")", "\"", "x", "\"">>}

\* ------------------------------------------------ optional values, modules

\* Python's None for a value that is otherwise a text or a record; a present
\* value v is Some(v), so that an empty text differs from None.
None == << >>

Some(v) == <<v>>

\* A tristate is_private: None, True or False.
TriNone == "None"

TriTrue == "True"

TriFalse == "False"

\* bool(x) for a tristate.
Truthy(x) == x = TriTrue

\* bool(...) as a tristate value.
TriBool(b) == IF b THEN TriTrue ELSE TriFalse

\* moduleSrcNames, as setModules registers them.
moduleSrcNames == {<<"f", "o", "o">>, <<"b", "a", "r">>}

\* ------------------------------------------- _get_visibility_and_module

\* \#(?>(public)|(private))\b(?>\((\w++)\))? at position i of a comment: kind
\* "public", "private", or "none" when it does not match there; module is
\* group 3, None when the parenthesised word is absent.
annotation_at(txt, i) ==
    LET word == IF StartsAt(txt, i + 1, <<"p", "u", "b", "l", "i", "c">>) THEN <<"p", "u", "b", "l", "i", "c">>
                ELSE IF StartsAt(txt, i + 1, <<"p", "r", "i", "v", "a", "t", "e">>) THEN <<"p", "r", "i", "v", "a", "t", "e">>
                ELSE << >>
        e    == i + 1 + Len(word)
        w    == RunEnd(txt, e + 1, WordChars)
        hasm == /\ e <= Len(txt) /\ txt[e] = "("
                /\ w > e + 1
                /\ w <= Len(txt) /\ txt[w] = ")"
    IN  IF i <= Len(txt) /\ txt[i] = "#" /\ word # << >> /\ WordBoundary(txt, e)
        THEN [kind |-> IF word = <<"p", "r", "i", "v", "a", "t", "e">> THEN "private" ELSE "public",
              module |-> IF hasm THEN Some(Slice(txt, e + 1, w)) ELSE None]
        ELSE [kind |-> "none", module |-> None]

\* regex.search of the annotation pattern: the leftmost match, from position i on.
RECURSIVE annotation_search(_, _)
annotation_search(txt, i) ==
    IF i > Len(txt) THEN [kind |-> "none", module |-> None]
    ELSE IF annotation_at(txt, i).kind # "none" THEN annotation_at(txt, i)
    ELSE annotation_search(txt, i + 1)

\* regex.match(r"^(?>(__wt_)|(__wti_|WT_))(\L<names>)?", name): kind "public"
\* when group 1 matched, "private" when group 2 matched, "none" without match;
\* module is group 3.
prefix_match(name) ==
    LET p == IF StartsAt(name, 1, <<"_", "_", "w", "t", "_">>) THEN <<"_", "_", "w", "t", "_">>
             ELSE IF StartsAt(name, 1, <<"_", "_", "w", "t", "i", "_">>) THEN <<"_", "_", "w", "t", "i", "_">>
             ELSE IF StartsAt(name, 1, <<"W", "T", "_">>) THEN <<"W", "T", "_">>
             ELSE << >>
        ms == {m \in moduleSrcNames : StartsAt(name, Len(p) + 1, m)}
    IN  IF p = << >> THEN [kind |-> "none", module |-> None]
        ELSE [kind |-> IF p = <<"_", "_", "w", "t", "_">> THEN "public" ELSE "private",
              module |-> IF ms = {} THEN None ELSE Some(CHOOSE m \in ms : TRUE)]

\* (bool(match[2]), match[3] if match[3] else default_module)
match_result(m, default_module) ==
    <<TriBool(m.kind = "private"),
      IF m.module # None THEN m.module[1] ELSE default_module>>

\* The comments whose annotation decides: the leading one when it holds an
\* annotation, otherwise the trailing one.
comment_match_PostFirst(thing) ==
    LET pre  == IF thing.preComment # None
                THEN annotation_search(thing.preComment[1], 1)
                ELSE [kind |-> "none", module |-> None]
        post == IF thing.postComment # None
                THEN annotation_search(thing.postComment[1], 1)
                ELSE [kind |-> "none", module |-> None]
    IN  IF post.kind # "none" THEN post ELSE pre

comment_match(thing) ==
    LET pre  == IF thing.preComment # None
                THEN annotation_search(thing.preComment[1], 1)
                ELSE [kind |-> "none", module |-> None]
        post == IF thing.postComment # None
                THEN annotation_search(thing.postComment[1], 1)
                ELSE [kind |-> "none", module |-> None]
    IN  IF pre.kind # "none" THEN pre ELSE post

\* _get_visibility_and_module(thing, default_private, default_module, is_nested):
\* the pair (is_private, module).
get_visibility_and_module(thing, default_private, default_module, is_nested) ==
    IF comment_match(thing).kind # "none"
    THEN match_result(comment_match(thing), default_module)
    ELSE IF is_nested /\ prefix_match(thing.name).kind # "none"
    THEN match_result(prefix_match(thing.name), default_module)
    ELSE <<default_private, default_module>>

\* The comments and names the model's declarations carry.
cNote == <<"/", "*", " ", "n", "o", "t", "e", " ", "*", "/">>

cPrivate == <<"/", "*", " ", "#", "p", "r", "i", "v", "a", "t", "e", " ", "*", "/">>

cPublicBar == <<"/", "*", " ", "#", "p", "u", "b", "l", "i", "c", "(", "b", "a", "r", ")", " ", "*", "/">>

cPrivately == <<"/", "*", " ", "#", "p", "r", "i", "v", "a", "t", "e", "l", "y", " ", "*", "/">>

cPrivateFooPublic == <<"/", "/", " ", "#", "p", "r", "i", "v", "a", "t", "e", "(", "f", "o", "o", ")", " ", "#", "p", "u", "b", "l", "i", "c">>

cPublicNoModule == <<"/", "*", " ", "#", "p", "u", "b", "l", "i", "c", "(", ")", " ", "*", "/">>

Comments == {cNote, cPrivate, cPublicBar, cPrivately, cPrivateFooPublic, cPublicNoModule}

OptComments == {None} \cup {Some(c) : c \in Comments}

nF == <<"f">>

nWtFoo == <<"_", "_", "w", "t", "_", "f", "o", "o">>

nWtX == <<"_", "_", "w", "t", "_", "x">>

nWtiBarX == <<"_", "_", "w", "t", "i", "_", "b", "a", "r", "_", "x">>

nWTX == <<"W", "T", "_", "X">>

nPlain == <<"w", "t", "_", "f", "o", "o">>

ThingNames == {nF, nWtFoo, nWtX, nWtiBarX, nWTX, nPlain}

\* One call of _get_visibility_and_module on a thing with the given name and comments.
GetVisibilityCall ==
    \E n \in ThingNames, pre \in OptComments, post \in OptComments,
       dp \in {TriNone, TriTrue, TriFalse}, dm \in {<< >>} \cup moduleSrcNames,
       nested \in BOOLEAN :
        LET thing == [name |-> n, preComment |-> pre, postComment |-> post] IN
        call' = [fn |-> "_get_visibility_and_module",
                 args |-> <<thing, dp, dm, nested>>,
                 ret |-> get_visibility_and_module(thing, dp, dm, nested)]

\* ------------------------------------ FunctionParts, MacroParts: update

\* FunctionParts(typename, name, args, body, preComment, postComment): typename
\* is the list of the values of its tokens, body and the comments are optional.
\* Tokens compare by value only.
FunctionParts(typename, name, args, body, preComment, postComment) ==
    [cls |-> "FunctionParts", typename |-> typename, name |-> name, args |-> args,
     body |-> body, preComment |-> preComment, postComment |-> postComment]

\* The receiver after "if self.<comment> is None: self.<comment> = other.<comment>".
TakeComment(mine, theirs) == IF mine = None THEN theirs ELSE mine

\* "self.body is not None and other.body is not None and self.body != other.body"
function_body_mismatch_AnyDifference(self, other) == self.body # other.body

function_body_mismatch(self, other) ==
    self.body # None /\ other.body # None /\ self.body # other.body

\* FunctionParts.update(other): the returned list of messages, one tag per
\* message, and the receiver afterwards.
FunctionParts_update(self, other) ==
    [errors |->
        (IF self.typename # other.typename THEN <<"retType mismatch">> ELSE << >>)
        \o (IF self.name # other.name THEN <<"name mismatch">> ELSE << >>)
        \o (IF self.args # other.args THEN <<"args mismatch">> ELSE << >>)
        \o (IF function_body_mismatch(self, other) THEN <<"redifinition">> ELSE << >>),
     self |-> [self EXCEPT !.preComment = TakeComment(@, other.preComment),
                           !.postComment = TakeComment(@, other.postComment)]]

\* A MacroParts with its preComment, the one field update may change.
MacroPartsCommented(m, preComment) ==
    [name |-> m.name, has_args |-> m.has_args, args |-> m.args,
     has_body |-> m.has_body, body |-> m.body, is_va_args |-> m.is_va_args,
     is_wellformed |-> m.is_wellformed, preComment |-> preComment]

\* MacroParts.update(other)
MacroParts_update(self, other) ==
    [errors |->
        (IF self.name # other.name THEN <<"name mismatch">> ELSE << >>)
        \o (IF self.has_args # other.has_args \/ self.args # other.args
            THEN <<"args mismatch">> ELSE << >>)
        \o (IF self.has_body # other.has_body \/ self.body # other.body
            THEN <<"redifinition">> ELSE << >>),
     self |-> [self EXCEPT !.preComment = TakeComment(@, other.preComment)]]

\* The functions update is called with.
UpdateFunctions ==
    {FunctionParts(t, n, a, b, pre, post) :
        t \in {<<<<"v", "o", "i", "d">>>>, <<<<"i", "n", "t">>>>}, n \in {nF, nWTX}, a \in {<<"i", "n", "t">>, <<"i", "n", "t", " ", "x">>},
        b \in {None, Some(<< >>), Some(<<"r", "e", "t", "u", "r", "n", ";">>)},
        pre \in {None, Some(cNote), Some(cPrivate)}, post \in {None, Some(cNote)}}

\* The macros update is called with.
UpdateMacros ==
    {MacroPartsCommented(m, pre) :
        m \in {mFOO, mA, mAB, mID, mZ, mE, MacroParts(<<"E">>, FALSE, << >>, FALSE, << >>, FALSE)},
        pre \in {None, Some(cNote), Some(cPrivate)}}

\* One call self.update(other) on two FunctionParts.
FunctionUpdateCall ==
    \E self \in UpdateFunctions, other \in UpdateFunctions :
        call' = [fn |-> "FunctionParts.update", args |-> <<self, other>>,
                 ret |-> FunctionParts_update(self, other)]

\* One call self.update(other) on two MacroParts.
MacroUpdateCall ==
    \E self \in UpdateMacros, other \in UpdateMacros :
        call' = [fn |-> "MacroParts.update", args |-> <<self, other>>,
                 ret |-> MacroParts_update(self, other)]

\* ----------------------------------------------- RecordParts, Variable

\* Variable(name, typename, end): a parsed variable or typedef declaration;
\* typename is the list of the values of its type tokens, end the character
\* that closed the statement.
Variable(name, typename, end) ==
    [cls |-> "Variable", name |-> name, typename |-> typename, end |-> end,
     preComment |-> None, postComment |-> None]

\* RecordParts: members are Variables, typedefs the Variables the record is
\* bound to by a leading "typedef", nested the RecordParts defined inside it;
\* parent tells a nested record from a top-level one.
RecordParts(name, body, members, typedefs, nested, parent, preComment, postComment) ==
    [cls |-> "RecordParts", name |-> name, body |-> body, members |-> members,
     typedefs |-> typedefs, nested |-> nested, parent |-> parent,
     preComment |-> preComment, postComment |-> postComment]

\* RecordParts.update(other) and Variable.update(other): a message for a
\* mismatch, the receiver's comments filled from other when None.
Parts_update(self, other) ==
    [errors |-> IF self.name # other.name THEN <<"name mismatch">> ELSE << >>,
     self |-> [self EXCEPT !.preComment = TakeComment(@, other.preComment),
                           !.postComment = TakeComment(@, other.postComment)]]

\* self.details.update(other.details), by the class of the details.
details_update(self, other) ==
    IF self.cls = "FunctionParts" THEN FunctionParts_update(self, other)
    ELSE Parts_update(self, other)

\* c_type_keywords, as far as the model's declarations use them.
c_type_keywords == {<<"s", "t", "r", "u", "c", "t">>, <<"u", "n", "i", "o", "n">>, <<"e", "n", "u", "m">>, <<"c", "o", "n", "s", "t">>, <<"t", "y", "p", "e", "d", "e", "f">>}

\* get_base_type(typename): the type name without keywords and pointers.
get_base_type(typename) ==
    LET words == SelectSeq(typename, LAMBDA w : w \notin c_type_keywords /\ w # <<"*">>)
    IN  IF words = << >> THEN << >> ELSE words[Len(words)]

\* ------------------------------------------------------------ Definition

\* A source file: its module (scope_module()) and get_file_priority(name).
File(name, module, priority) == [name |-> name, module |-> module, priority |-> priority]

\* Definition(name, kind, scope, offset, module, is_private, details); the
\* comment lists start empty.
Definition(name, kind, file, offset, module, is_private, details) ==
    [name |-> name, kind |-> kind, file |-> file, offset |-> offset,
     module |-> module, is_private |-> is_private, details |-> details,
     preComments |-> << >>, postComments |-> << >>]

\* Definition.get_priority
get_priority(d) ==
    (IF Truthy(d.is_private) THEN 10 ELSE 0) + d.file.priority
    + (IF d.details.cls \in {"FunctionParts", "RecordParts"} /\ d.details.body # None
       THEN 100 ELSE 0)

\* The body of Definition.update below the priority test: the receiver self
\* takes the state of other.  Returns both objects as they are afterwards and
\* the warnings logged.
update_body(self, other) ==
    LET same == self.details.cls = other.details.cls
        du   == details_update(self.details, other.details)
    IN  [self |-> [self EXCEPT
                      !.is_private = IF Truthy(other.is_private) THEN TriTrue ELSE @,
                      !.details = IF same THEN du.self ELSE @,
                      !.preComments = @ \o other.preComments,
                      !.postComments = @ \o other.postComments],
         other |-> other,
         warnings |->
            (IF self.kind # other.kind THEN <<"kind">> ELSE << >>)
            \o (IF self.module # other.module THEN <<"module">> ELSE << >>)
            \o (IF ~same THEN <<"details type">> ELSE du.errors)]

\* "if check_riority and self.get_priority() < other.get_priority()"
other_has_priority(self, other) == get_priority(self) < get_priority(other)

\* Definition.update(other): when other has the higher priority the roles are
\* exchanged, "return other.update(self, check_riority=False)", and it is the
\* object other that is changed.
Definition_update(self, other) ==
    IF other_has_priority(self, other)
    THEN LET r == update_body(other, self)
         IN  [self |-> r.other, other |-> r.self, warnings |-> r.warnings]
    ELSE update_body(self, other)

\* -------------------------------------------------------------- Codebase

\* A dict: a function from its keys.
EmptyMap == [k \in {} |-> k]

\* d[k] = v
Put(d, k, v) == [x \in DOMAIN d \cup {k} |-> IF x = k THEN v ELSE d[x]]

\* Codebase(): every map empty.  defs holds the Definition objects created so
\* far, each known by its position; the maps refer to them by that position,
\* so that two maps can hold the very same object.  warnings is the log of
\* WARNING calls, scanned the texts updateFromText was called with, upserts
\* the calls of _dict_upsert_def: the bucket and the Definition passed.
\* macros is Macros.macros of the registry the Codebase owns, macro_errors its
\* Macros.errors, registered the calls of Macros.add and Macros.upsert made
\* on it from outside the class.
Codebase ==
    [defs |-> << >>, types |-> EmptyMap, types_restricted |-> EmptyMap,
     fields |-> EmptyMap, names |-> EmptyMap, names_restricted |-> EmptyMap,
     typedefs |-> EmptyMap, macros |-> EmptyMap, warnings |-> << >>,
     scanned |-> << >>, upserts |-> << >>,
     macro_errors |-> << >>, registered |-> << >>]

\* _dict_upsert_def(d, other) on a bucket d of the heap defs: the heap and the
\* bucket afterwards, the object other as the call leaves it, the warnings.
dict_upsert_def(defs, d, other) ==
    IF other.name \in DOMAIN d
    THEN LET r == Definition_update(defs[d[other.name]], other)
         IN  [defs |-> [defs EXCEPT ![d[other.name]] = r.self], d |-> d,
              other |-> r.other, warnings |-> r.warnings]
    ELSE [defs |-> Append(defs, other), d |-> Put(d, other.name, Len(defs) + 1),
          other |-> other, warnings |-> << >>]

\* The loop over record.members of _add_record, from the k-th member on.
RECURSIVE add_members(_, _, _, _)
add_members(c, record, file, k) ==
    IF k > Len(record.members) THEN c
    ELSE LET vis    == get_visibility_and_module(record, TriNone, file.module, TRUE)
             bucket == IF record.name \in DOMAIN c.fields
                       THEN c.fields[record.name] ELSE EmptyMap
             new    == Definition(record.members[k].name, "field", file, 0,
                                  vis[2], vis[1], record.members[k])
             up     == dict_upsert_def(c.defs, bucket, new)
         IN  add_members([c EXCEPT !.defs = up.defs,
                                   !.fields = Put(@, record.name, up.d),
                                   !.warnings = @ \o up.warnings,
                                   !.upserts = Append(@, [bucket |-> "fields", other |-> new])],
                         record, file, k + 1)

\* The loop over record.typedefs of _add_record.
RECURSIVE add_typedefs(_, _, _)
add_typedefs(c, record, k) ==
    IF k > Len(record.typedefs) THEN c
    ELSE add_typedefs([c EXCEPT !.typedefs = Put(@, record.typedefs[k].name, record.name)],
                      record, k + 1)

\* Codebase._add_record(record), the loop over record.nested included.
RECURSIVE add_record(_, _, _)
RECURSIVE add_nested(_, _, _, _)
add_record(c, record, file) ==
    LET vis == get_visibility_and_module(record, TriNone, file.module, record.parent)
        new == Definition(record.name, "record", file, 0, vis[2], vis[1], record)
        up  == dict_upsert_def(c.defs, c.types, new)
        c1  == [c EXCEPT !.defs = up.defs, !.types = up.d,
                         !.warnings = @ \o up.warnings,
                         !.upserts = Append(@, [bucket |-> "types", other |-> new]),
                         !.types_restricted =
                             IF Truthy(vis[1]) THEN Put(@, record.name, up.d[record.name])
                             ELSE @]
        c2  == add_members(c1, up.other.details, file, 1)
        c3  == add_typedefs(c2, record, 1)
    IN  add_nested(c3, record, file, 1)

add_nested(c, record, file, k) ==
    IF k > Len(record.nested) THEN c
    ELSE add_nested(add_record(c, record.nested[k], file), record, file, k + 1)

\* The function branch of updateFromText: only a function with a body is
\* recorded.
records_function_Always(func) == func # None

records_function(func) == func # None /\ func[1].body # None

add_function(c, func, file) ==
    LET vis == get_visibility_and_module(func, TriNone, file.module, FALSE)
        new == Definition(func.name, "function", file, 0, vis[2], vis[1], func)
        up  == dict_upsert_def(c.defs, c.names, new)
    IN  [c EXCEPT !.defs = up.defs, !.names = up.d,
                  !.warnings = @ \o up.warnings,
                  !.upserts = Append(@, [bucket |-> "names", other |-> new]),
                  !.names_restricted =
                      IF Truthy(vis[1]) THEN Put(@, func.name, up.d[func.name]) ELSE @]

\* "elif st.getKind().is_decl: pass"
decl_pass_Records(c, st, file) ==
    IF st.func # None THEN add_function(c, st.func[1], file) ELSE c

decl_pass(c, st, file) == c

\* Macros.add(macro)
macros_add(c, macro) == [c EXCEPT !.macros = Put(@, macro.name, macro)]

\* Macros.upsert(other), were it to replace what is registered.
macros_upsert_Replaces(c, macro) ==
    [macros_add(c, macro) EXCEPT !.registered = Append(@, [op |-> "upsert", macro |-> macro])]

\* Macros.upsert(other): the list update returns is dropped.
macros_upsert(c, macro) ==
    LET logged == [c EXCEPT !.registered = Append(@, [op |-> "upsert", macro |-> macro])]
    IN  IF macro.name \in DOMAIN c.macros
        THEN [logged EXCEPT !.macros[macro.name] = MacroParts_update(@, macro).self]
        ELSE macros_add(logged, macro)

\* A statement with its classification st.kind (the facets of getKind()) and
\* what the parsers make of it: func (FunctionParts.fromStatement), record
\* (RecordParts.fromStatement), var (Variable.fromVarDef), macro
\* (MacroParts.fromStatement), each None when the parser returns None, and
\* inner, the statements inside the braces of an extern "C" block.
Statement(kind, func, record, var, macro, inner) ==
    [kind |-> kind, func |-> func, record |-> record, var |-> var,
     macro |-> macro, inner |-> inner]

\* The loop of updateFromText over the statements sts from the k-th on, with
\* the local saved_type.
RECURSIVE update_from_statements(_, _, _, _, _)
update_from_statements(c, sts, file, k, saved_type) ==
    IF k > Len(sts) THEN c
    ELSE LET st == sts[k] IN
    IF saved_type # None \/ ("typedef" \in st.kind /\ "record" \notin st.kind)
    THEN IF st.var # None
         THEN LET typename == IF st.var[1].typename = << >> THEN saved_type[1]
                              ELSE st.var[1].typename
              IN  update_from_statements(
                      [c EXCEPT !.typedefs = Put(@, st.var[1].name, get_base_type(typename))],
                      sts, file, k + 1,
                      IF st.var[1].end = "," THEN Some(typename) ELSE None)
         ELSE update_from_statements(c, sts, file, k + 1, saved_type)
    ELSE IF "function_def" \in st.kind
    THEN update_from_statements(
             IF records_function(st.func) THEN add_function(c, st.func[1], file) ELSE c,
             sts, file, k + 1, None)
    ELSE IF "record" \in st.kind
    THEN update_from_statements(
             IF st.record # None THEN add_record(c, st.record[1], file) ELSE c,
             sts, file, k + 1, None)
    ELSE IF "decl" \in st.kind
    THEN update_from_statements(decl_pass(c, st, file), sts, file, k + 1, None)
    ELSE IF "preproc" \in st.kind
    THEN update_from_statements(
             IF st.macro # None THEN macros_upsert(c, st.macro[1]) ELSE c,
             sts, file, k + 1, None)
    ELSE IF "extern_c" \in st.kind
    THEN update_from_statements(
             update_from_statements(c, st.inner, file, 1, None),
             sts, file, k + 1, None)
    ELSE update_from_statements(c, sts, file, k + 1, None)

\* Codebase.updateFromText(txt) for a text of file that segments into sts.
updateFromText(c, sts, file) ==
    [update_from_statements(c, sts, file, 1, None)
        EXCEPT !.scanned = Append(@, [text |-> sts, file |-> file])]

\* ------------------------------------------------ the texts that are scanned

nFoo == <<"f", "o", "o">>

nBAR == <<"B", "A", "R">>

nBAZ == <<"B", "A", "Z">>

\* A header and a source file of module foo.
fH == File("foo.h", <<"f", "o", "o">>, 0)

fC == File("foo.c", <<"f", "o", "o">>, 1)

Member(name) == Variable(name, <<<<"i", "n", "t">>>>, ";")

\* "void f(int);"
pProto == FunctionParts(<<<<"v", "o", "i", "d">>>>, nF, <<"i", "n", "t">>, None, None, None)

\* "void f(int x){...}"
pDef == FunctionParts(<<<<"v", "o", "i", "d">>>>, nF, <<"i", "n", "t", " ", "x">>, Some(<<".", ".", ".">>), None, None)

\* "/* #private */ void f(int x){return;}"
pDefPrivate == FunctionParts(<<<<"v", "o", "i", "d">>>>, nF, <<"i", "n", "t", " ", "x">>, Some(<<"r", "e", "t", "u", "r", "n", ";">>), Some(cPrivate), None)

\* "struct __wt_foo { int x; }"
rWtFoo ==
    RecordParts(nWtFoo, Some(<<"i", "n", "t", " ", "x", ";">>), <<Member(<<"x">>)>>, << >>, << >>, FALSE, None, None)

\* "/* #private */ struct __wt_foo;"
rWtFooDeclPrivate ==
    RecordParts(nWtFoo, None, << >>, << >>, << >>, FALSE, Some(cPrivate), None)

\* "struct __wt_foo { int x; } // #private(foo) #public"
rWtFooPrivate ==
    RecordParts(nWtFoo, Some(<<"i", "n", "t", " ", "x", ";">>), <<Member(<<"x">>)>>, << >>, << >>, FALSE,
                None, Some(cPrivateFooPublic))

\* "struct BAR { int y; }"
rBAR == RecordParts(nBAR, Some(<<"i", "n", "t", " ", "y", ";">>), <<Member(<<"y">>)>>, << >>, << >>, FALSE, None, None)

\* "typedef struct foo { int x; } foo;"
rFooTypedef ==
    RecordParts(nFoo, Some(<<"i", "n", "t", " ", "x", ";">>), <<Member(<<"x">>)>>,
                <<Variable(nFoo, << >>, ";")>>, << >>, FALSE, None, None)

\* "struct outer { struct __wti_bar_x { int z; } in; }"
rOuter ==
    RecordParts(<<"o", "u", "t", "e", "r">>, Some(<<"s", "t", "r", "u", "c", "t", " ", "_", "_", "w", "t", "i", "_", "b", "a", "r", "_", "x", " ", "{", " ", "i", "n", "t", " ", "z", ";", " ", "}", " ", "i", "n", ";">>), <<Member(<<"i", "n">>)>>, << >>,
                <<RecordParts(nWtiBarX, Some(<<"i", "n", "t", " ", "z", ";">>), <<Member(<<"z">>)>>, << >>, << >>,
                              TRUE, None, None)>>,
                FALSE, None, None)

\* "struct holder { int WT_X; }"
rHolder ==
    RecordParts(<<"h", "o", "l", "d", "e", "r">>, Some(<<"i", "n", "t", " ", "W", "T", "_", "X", ";">>),
                <<Member(nWTX)>>, << >>, << >>, FALSE, None, None)

FunctionStatement(kind, func) == Statement(kind, Some(func), None, None, None, << >>)

RecordStatement(kind, record) == Statement(kind, None, Some(record), None, None, << >>)

TypedefStatement(name, typename, end) ==
    Statement({"typedef", "decl"}, None, None, Some(Variable(name, typename, end)), None, << >>)

MacroStatement(m, preComment) ==
    Statement({"preproc"}, None, None, None, Some(MacroPartsCommented(m, preComment)), << >>)

\* The texts of typedefs and of the records they name.
TypedefTexts ==
    {<<RecordStatement({"record"}, rBAR)>>,
     <<RecordStatement({"record"}, rWtFoo)>>,
     <<RecordStatement({"record", "typedef"}, rFooTypedef)>>,
     <<TypedefStatement(nBAR, <<<<"s", "t", "r", "u", "c", "t">>, <<"f", "o", "o">>>>, ";")>>,
     <<TypedefStatement(nBAZ, <<nBAR>>, ";")>>,
     <<TypedefStatement(nFoo, <<<<"s", "t", "r", "u", "c", "t">>, <<"f", "o", "o">>>>, ";")>>,
     <<TypedefStatement(nFoo, <<nBAZ>>, ";")>>,
     <<TypedefStatement(nBAR, <<<<"s", "t", "r", "u", "c", "t">>, nWtFoo>>, ";")>>}

\* "typedef int a, b;": the second declarator has no type of its own.
tTypedefTwo ==
    <<TypedefStatement(<<"a">>, <<<<"i", "n", "t">>>>, ","),
      Statement({"decl"}, None, None, Some(Variable(<<"b">>, << >>, ";")), None, << >>)>>

\* "typedef int a," then a statement that Variable.fromVarDef does not parse,
\* then "void f(int x){...}".
tTypedefThenFunction ==
    <<TypedefStatement(<<"a">>, <<<<"i", "n", "t">>>>, ","),
      Statement({"decl"}, None, None, None, None, << >>),
      FunctionStatement({"function_def"}, pDef)>>

\* "int c;": a bare declaration.
tDeclaration ==
    <<Statement({"decl"}, None, None, Some(Variable(<<"c">>, <<<<"i", "n", "t">>>>, ";")), None, << >>)>>

\* A statement of no known shape: no classification, no parser accepts it.
tUnknown == <<Statement({}, None, None, None, None, << >>)>>

\* The texts of functions, macros and further records.  A prototype is
\* classified as a function definition or as a declaration.
OtherTexts ==
    {<<FunctionStatement({"decl"}, pProto)>>,
     <<FunctionStatement({"function_def"}, pProto)>>,
     <<FunctionStatement({"function_def"}, pDef)>>,
     <<FunctionStatement({"function_def"}, pDefPrivate)>>,
     <<RecordStatement({"record"}, rWtFooDeclPrivate)>>,
     <<RecordStatement({"record"}, rWtFooPrivate)>>,
     <<RecordStatement({"record"}, rOuter)>>,
     <<RecordStatement({"record"}, rHolder)>>,
     tTypedefTwo,
     tTypedefThenFunction,
     tDeclaration,
     tUnknown,
     <<MacroStatement(mFOO, None)>>,
     <<MacroStatement(mA, Some(cNote)), MacroStatement(mFOO, Some(cNote))>>,
     <<Statement({"extern_c"}, None, None, None, None,
                 <<FunctionStatement({"function_def"}, pDef)>>)>>}

\* The calls of updateFromText the model makes: a text and the file it is of.
ScanInputs ==
    {[text |-> t, file |-> fH] : t \in TypedefTexts \cup OtherTexts}
    \cup {[text |-> t, file |-> fC] :
            t \in {<<FunctionStatement({"function_def"}, pDef)>>,
                   <<FunctionStatement({"function_def"}, pDefPrivate)>>,
                   <<RecordStatement({"record"}, rWtFoo)>>}}

TypedefInputs == {[text |-> t, file |-> fH] : t \in TypedefTexts}

\* The names untypedef is called with.
TypeNames == {nFoo, nBAR, nBAZ, nWtFoo, <<"i", "n", "t">>}

\* ------------------------------------------------ Codebase: the actions

\* One call of updateFromText.
ScanText ==
    /\ Len(codebase.scanned) < MaxScans
    /\ \E i \in ScanInputs : codebase' = updateFromText(codebase, i.text, i.file)
    /\ UNCHANGED ut

\* One call of updateFromText on a text of typedefs and records, before any
\* call of untypedef.
ScanTypedefText ==
    /\ ut.pc = "idle"
    /\ Len(codebase.scanned) < MaxTypedefScans
    /\ \E i \in TypedefInputs : codebase' = updateFromText(codebase, i.text, i.file)
    /\ UNCHANGED ut

\* The macros the registry is handed: two bodies for A, with and without a
\* parameter list for E, each with and without a comment before it.
RegistryMacros ==
    {MacroPartsCommented(m, pre) :
        m \in {mA, mAB, mE, MacroParts(<<"E">>, FALSE, << >>, FALSE, << >>, FALSE)},
        pre \in {None, Some(cNote), Some(cPrivate)}}

\* One call of Macros.upsert on the registry of the Codebase.
UpsertMacro ==
    /\ Len(codebase.registered) < MaxRegistered
    /\ \E m \in RegistryMacros : codebase' = macros_upsert(codebase, m)
    /\ UNCHANGED ut

\* One call of Macros.add on the registry of the Codebase.
AddMacro ==
    /\ Len(codebase.registered) < MaxRegistered
    /\ \E m \in RegistryMacros :
          codebase' = [macros_add(codebase, m) EXCEPT
                          !.registered = Append(@, [op |-> "add", macro |-> m])]
    /\ UNCHANGED ut

\* No call of untypedef yet.  turn is the parity of the number of iterations
\* of the loop made so far.
UntypedefIdle == [pc |-> "idle", arg |-> << >>, name |-> << >>,
                  name1 |-> << >>, name2 |-> << >>, ret |-> << >>, turn |-> 0]

\* untypedef(name) is called: name1, name2 = "", "".
UntypedefCall ==
    /\ ut.pc = "idle"
    /\ \E n \in TypeNames :
          ut' = [UntypedefIdle EXCEPT !.pc = "loop", !.arg = n, !.name = n]
    /\ UNCHANGED codebase

\* One iteration of "while name in self.typedefs".
UntypedefLoop ==
    /\ ut.pc = "loop"
    /\ ut.name \in DOMAIN codebase.typedefs
    /\ ut' = [ut EXCEPT
          !.name1 = IF ut.name \in DOMAIN codebase.types
                    THEN codebase.typedefs[ut.name] ELSE @,
          !.name2 = IF ut.name \in DOMAIN codebase.fields
                    THEN codebase.typedefs[ut.name] ELSE @,
          !.name = codebase.typedefs[ut.name],
          !.turn = 1 - @]
    /\ UNCHANGED codebase

\* "return name2 if name2 else name1 if name1 else name"
UntypedefReturn ==
    /\ ut.pc = "loop"
    /\ ut.name \notin DOMAIN codebase.typedefs
    /\ ut' = [ut EXCEPT !.pc = "returned",
                        !.ret = IF ut.name2 # << >> THEN ut.name2
                                ELSE IF ut.name1 # << >> THEN ut.name1
                                ELSE ut.name]
    /\ UNCHANGED codebase

\* ------------------------------------------------------------ the driver

\* What a call made by main can raise.
Exceptions == {"KeyboardInterrupt", "BrokenPipeError", "OSError", "IndexError"}

\* The process before main: files is the number of files still to scan,
\* errors the process-wide tally workspace.errors.
DriverStart(files) ==
    [pc |-> "scan", files |-> files, errors |-> 0, returned |-> "None",
     raised |-> "None", exit |-> -1]

\* The exit status of sys.exit(arg) for the value main returned: a bool is an
\* int, True is 1 and False is 0.
sys_exit(arg) == IF arg = "True" THEN 1 ELSE 0

\* "return not lcp.workspace.errors"
main_return(tally) == TriBool(~(tally # 0))

\* scanFiles scans one more file; diagnostics add to the tally.
DriverScanFile ==
    /\ drv.pc = "scan"
    /\ drv.files > 0
    /\ \E e \in 0..2 :
          /\ drv.errors + e <= MaxErrors
          /\ drv' = [drv EXCEPT !.files = @ - 1, !.errors = @ + e]

\* AccessCheck(_globals).checkAccess(); its findings add to the tally.
DriverCheckAccess ==
    /\ drv.pc = "scan"
    /\ drv.files = 0
    /\ \E e \in 0..2 :
          /\ drv.errors + e <= MaxErrors
          /\ drv' = [drv EXCEPT !.pc = "checked", !.errors = @ + e]

\* A call made by main raises.
DriverRaise ==
    /\ drv.pc = "scan"
    /\ \E x \in Exceptions : drv' = [drv EXCEPT !.pc = "raised", !.raised = x]

\* "sys.exit(main())" when main returns.
DriverExit ==
    /\ drv.pc = "checked"
    /\ drv' = [drv EXCEPT !.pc = "exited",
                          !.returned = main_return(drv.errors),
                          !.exit = sys_exit(main_return(drv.errors))]

\* The except clauses: exit status 1; an exception that none of them names
\* ends the process with a traceback and status 1.
DriverExcept ==
    /\ drv.pc = "raised"
    /\ drv' = [drv EXCEPT !.pc = "exited", !.exit = 1]

\* ------------------------------------------------------ the specifications

\* No Codebase in use, no driver, no call.
CodebaseIdle == codebase = Codebase /\ ut = UntypedefIdle

DriverIdle == drv = [DriverStart(0) EXCEPT !.pc = "none"]

CallIdle == call = [fn |-> "none", args |-> << >>, ret |-> << >>]

\* ----------------------------------------------------------------- cache

\* The source file the wrapped function is keyed on and one further file.
Files == {"src", "dep"}

\* What depsFn returns: None (the empty set here), or a list of files.
DepsChoices == {{}, {"dep"}, {"src", "dep"}}

\* No wrapped call has returned since the last change.
NoCall == [fn |-> "none", ret |-> << >>, called |-> FALSE, read |-> FALSE,
           wrote |-> FALSE, before |-> None]

\* The module and the disk before the first call.  rootPath is whether
\* workspace.rootPath is set, deps what depsFn returns, mtime and version the
\* modification time and the content of each file, file the cache file: None
\* when there is none, else its modification time and the object pickled.
CacheStart(rootPath, deps) ==
    [rootPath |-> rootPath, deps |-> deps, use_cache |-> TRUE, now |-> 0,
     mtime |-> [f \in Files |-> 0], version |-> [f \in Files |-> 1],
     file |-> None, last |-> NoCall]

\* getcachepath(srcpath, suffix) is not "".
getcachepath(c) == c.rootPath

\* is_cached(srcpath, dependencies, suffix, cachepath)
is_cached(c) ==
    IF ~getcachepath(c) THEN FALSE
    ELSE IF c.file = None THEN FALSE
    ELSE IF c.deps = {} THEN c.mtime["src"] - c.file[1].mtime <= 1
    ELSE \A dep \in c.deps : ~(c.mtime[dep] - c.file[1].mtime > 1)

\* get(srcpath, dependencies, suffix): None, or the object unpickled.
get(c) == IF ~is_cached(c) THEN None ELSE Some(c.file[1].obj)

\* put(obj, srcpath, suffix): the disk afterwards.
put(c, obj) ==
    IF ~getcachepath(c) THEN c
    ELSE [c EXCEPT !.file = Some([mtime |-> c.now, obj |-> obj])]

\* The wrapped function: its result is determined by the contents of the
\* files it reads.
func(c) == c.version

\* wrapper(*args, **kwargs) of cached(fileFn, depsFn, suffixFn)
wrapper(c) ==
    IF ~c.use_cache
    THEN [c EXCEPT !.last = [fn |-> "call", ret |-> func(c), called |-> TRUE,
                             read |-> FALSE, wrote |-> FALSE, before |-> c.file]]
    ELSE LET obj == get(c)
         IN  IF obj # None
             THEN [c EXCEPT !.last = [fn |-> "call", ret |-> obj[1], called |-> FALSE,
                                      read |-> TRUE, wrote |-> FALSE, before |-> c.file]]
             ELSE [put(c, func(c)) EXCEPT
                      !.last = [fn |-> "call", ret |-> func(c), called |-> TRUE,
                                read |-> TRUE, wrote |-> getcachepath(c),
                                before |-> c.file]]

\* One call of the wrapped function.
WrappedCall == cache' = wrapper(cache)

\* A second passes.
Tick ==
    /\ cache.now < MaxTime
    /\ cache' = [cache EXCEPT !.now = @ + 1, !.last = NoCall]

\* A file is written with new content.
ModifyFile ==
    \E f \in Files :
        /\ cache.version[f] < MaxVersion
        /\ cache' = [cache EXCEPT !.version[f] = @ + 1, !.mtime[f] = cache.now,
                                  !.last = NoCall]

\* "use_cache" of the module is assigned.
SetUseCache ==
    \E b \in BOOLEAN :
        /\ b # cache.use_cache
        /\ cache' = [cache EXCEPT !.use_cache = b, !.last = NoCall]

\* clearcache()
clearcache ==
    /\ cache.rootPath
    /\ cache.file # None
    /\ cache' = [cache EXCEPT !.file = None, !.last = NoCall]

CacheIdle == cache = [CacheStart(FALSE, {}) EXCEPT !.use_cache = FALSE]

OtherIdle == CodebaseIdle /\ DriverIdle /\ CallIdle /\ CacheIdle

OtherVars == <<codebase, ut, drv, call, cache>>

vars == <<tk, macros, in_use, in_use_stack, errors, text, stack, status, result,
          codebase, ut, drv, call, cache>>

MacroVars == <<macros, in_use, in_use_stack, errors, text, stack, status, result>>

\* No tokenizer run.
TokIdle == tk = [xFromText_Start(<< >>) EXCEPT !.done = TRUE]

\* A Macros object holding registry reg, before any call of expand; thread t
\* is to call expand(texts[t]).
MacrosInit(reg, texts) ==
    /\ macros = reg
    /\ in_use = {}
    /\ in_use_stack = << >>
    /\ errors = << >>
    /\ text = texts
    /\ stack = [t \in Threads |-> << >>]
    /\ status = [t \in Threads |-> "idle"]
    /\ result = [t \in Threads |-> << >>]

\* One thread calls expand once.
Init ==
    /\ TokIdle
    /\ OtherIdle
    /\ \E reg \in {RegEmpty, RegSelf, RegMutual, RegMain} :
          \E txt \in IF reg = RegMain THEN Texts ELSE Examples \cup Items :
             MacrosInit(reg, [t \in Threads |-> IF t = 1 THEN txt ELSE << >>])

Next == (\E t \in {1} : Step(t)) /\ UNCHANGED OtherVars

Spec == Init /\ [][Next]_vars

\* The call of thread t can take a step: it has not started, or it runs and is
\* not about to enter an _expand_fragment call beyond MaxDepth frames.
CanStep(t) ==
    \/ status[t] = "idle"
    \/ /\ status[t] = "run"
       /\ \/ Len(stack[t]) < MaxDepth
          \/ ~ \/ Top(t).callback.pc \in {"obj_push", "fn_push"}
               \/ /\ Top(t).callback.pc = "fn_args"
                  /\ Len(Top(t).callback.expanded) < Len(Top(t).callback.raw)

\* The interpreter keeps running the one thread: weak fairness of Next,
\* WF_vars(Next), with ENABLED <<Next>>_vars written out as CanStep(1).
FairSpec == Spec /\ ([]<>(~CanStep(1)) \/ []<><<Next>>_vars)

\* Two threads call expand on the same Macros object, each once.
ThreadsInit ==
    /\ TokIdle
    /\ OtherIdle
    /\ \/ \E t1 \in ThreadTexts : \E t2 \in ThreadTexts :
             MacrosInit(RegMain, [t \in Threads |-> IF t = 1 THEN t1 ELSE t2])
       \/ MacrosInit(RegSelf, [t \in Threads |-> <<"A">>])

ThreadsNext == (\E t \in Threads : Step(t)) /\ UNCHANGED OtherVars

ThreadsSpec == ThreadsInit /\ [][ThreadsNext]_vars

\* The tokenizer alone.
TokInit == TokStart /\ MacrosInit(RegEmpty, [t \in Threads |-> << >>]) /\ OtherIdle

SpecTok == TokInit /\ [][TokNext /\ UNCHANGED MacroVars /\ UNCHANGED OtherVars]_vars

\* No tokenizer run, no call of expand.
MacrosIdle == TokIdle /\ MacrosInit(RegEmpty, [t \in Threads |-> << >>])

\* A Codebase is built by calls of updateFromText.
ScanInit == MacrosIdle /\ OtherIdle

ScanNext == ScanText /\ UNCHANGED <<tk, MacroVars, drv, call, cache>>

SpecScan == ScanInit /\ [][ScanNext]_vars

\* A Codebase is built from typedefs and records, then untypedef is called.
RegistryNext ==
    /\ UpsertMacro \/ AddMacro
    /\ UNCHANGED <<tk, MacroVars, drv, call, cache>>

SpecRegistry == ScanInit /\ [][RegistryNext]_vars

UntypedefNext ==
    /\ ScanTypedefText \/ UntypedefCall \/ UntypedefLoop \/ UntypedefReturn
    /\ UNCHANGED <<tk, MacroVars, drv, call, cache>>

\* The interpreter keeps running the loop of untypedef.
SpecUntypedef ==
    /\ ScanInit
    /\ [][UntypedefNext]_vars
    /\ WF_vars((UntypedefLoop \/ UntypedefReturn) /\ UNCHANGED <<tk, MacroVars, drv, call, cache>>)

\* One run of the driver over at most MaxFiles files.
DriverInit ==
    /\ MacrosIdle
    /\ CodebaseIdle
    /\ CallIdle
    /\ CacheIdle
    /\ \E n \in 0..MaxFiles : drv = DriverStart(n)

DriverNext ==
    /\ DriverScanFile \/ DriverCheckAccess \/ DriverRaise \/ DriverExit \/ DriverExcept
    /\ UNCHANGED <<tk, MacroVars, codebase, ut, call, cache>>

SpecDriver == DriverInit /\ [][DriverNext]_vars

\* Wrapped calls, the clock and the files, for each setting of
\* workspace.rootPath and each depsFn.
CacheInit ==
    /\ MacrosIdle
    /\ CodebaseIdle
    /\ DriverIdle
    /\ CallIdle
    /\ \E rootPath \in BOOLEAN, deps \in DepsChoices : cache = CacheStart(rootPath, deps)

CacheNext ==
    /\ WrappedCall \/ Tick \/ ModifyFile \/ SetUseCache \/ clearcache
    /\ UNCHANGED <<tk, MacroVars, codebase, ut, drv, call>>

SpecCache == CacheInit /\ [][CacheNext]_vars

\* Single calls of _get_visibility_and_module and of the update methods.
CallsNext ==
    /\ call.fn = "none"
    /\ GetVisibilityCall \/ FunctionUpdateCall \/ MacroUpdateCall
    /\ UNCHANGED <<tk, MacroVars, codebase, ut, drv, cache>>

SpecCalls == ScanInit /\ [][CallsNext]_vars

\* ------------------------------------------------- vocabulary of the claims

Finished(t) == status[t] \in {"done", "raised"}

Quote(txt) == <<"\"">> \o txt \o <<"\"">>

\* C string escaping, character by character: backslash, newline, tab and
\* double quote become a backslash and a letter, everything else stays.
EscapeEach(txt) ==
    Concat([k \in 1..Len(txt) |->
        IF txt[k] = "\\" THEN <<"\\", "\\">>
        ELSE IF txt[k] = "\n" THEN <<"\\", "n">>
        ELSE IF txt[k] = "\t" THEN <<"\\", "t">>
        ELSE IF txt[k] = "\"" THEN <<"\\", "\"">>
        ELSE <<txt[k]>>])

\* The argument list text split at its top-level commas, counting bracket depth
\* and string state character by character: segs are the segments closed so
\* far, cur the one being read.
RECURSIVE SplitFrom(_, _, _, _, _, _)
SplitFrom(list, i, depth, instr, segs, cur) ==
    IF i > Len(list) THEN Append(segs, cur)
    ELSE IF list[i] = "\\" /\ i < Len(list)
    THEN SplitFrom(list, i + 2, depth, instr, segs, cur \o <<list[i], list[i + 1]>>)
    ELSE IF instr
    THEN SplitFrom(list, i + 1, depth, list[i] # "\"", segs, Append(cur, list[i]))
    ELSE IF list[i] = "," /\ depth = 0
    THEN SplitFrom(list, i + 1, depth, FALSE, Append(segs, cur), << >>)
    ELSE SplitFrom(list, i + 1,
                   IF list[i] = "(" THEN depth + 1
                   ELSE IF list[i] = ")" THEN depth - 1 ELSE depth,
                   list[i] = "\"", segs, Append(cur, list[i]))

SplitTopLevel(list) == SplitFrom(list, 1, 0, FALSE, << >>, << >>)

\* The segments from the k-th on, joined with the commas that separated them.
RECURSIVE JoinComma(_, _)
JoinComma(segs, k) ==
    IF k > Len(segs) THEN << >>
    ELSE IF k = Len(segs) THEN segs[k]
    ELSE segs[k] \o <<",">> \o JoinComma(segs, k + 1)

\* The argument list text of a matched call m0 = name [spaces] ( list ).
ListOf(m0) ==
    LET open == RunEnd(m0, RunEnd(m0, 1, WordChars), WhiteSpace)
    IN  Slice(m0, open + 1, Len(m0))

\* The callbacks of thread 1 that hold the substituted body of a call of name:
\* _expand_fn_like between reg_macro_subst.sub and the rescan.
Substituted(name) ==
    {k \in 1..Len(stack[1]) :
        /\ stack[1][k].callback.pc \in {"fn_add", "fn_push"}
        /\ stack[1][k].callback.name = name}

\* The callbacks of thread 1 that run _expand_fn_like past its arity test.
FnCalls ==
    {k \in 1..Len(stack[1]) :
        /\ stack[1][k].callback.pc \in {"fn_args", "fn_wait", "fn_add", "fn_push", "fn_pop", "fn_rm"}}

Callback(k) == stack[1][k].callback

\* expand(txt) has returned res under the main registry.
Expands(txt, res) ==
    (macros = RegMain /\ text[1] = txt /\ Finished(1)) => (status[1] = "done" /\ result[1] = res)

\* The match of _names_reg at the start of txt.
CallAt(txt) == names_reg_at(macros, txt, 1)

\* txt is one function-like macro call and nothing else.
WholeCall(txt) ==
    /\ txt # << >>
    /\ fn_like_names(macros) # {}
    /\ CallAt(txt).kind = "fn"
    /\ CallAt(txt).end = Len(txt) + 1

\* ----------------------------------------------------------------- C1

\* C1: a macro name met while that macro is being expanded is emitted
\* unchanged: under "#define A A" alone, and under "#define A B" with
\* "#define B A", every text is returned as it is ("x A y" gives "x A y", "A"
\* gives "A"); and "x A y" is returned unchanged when "#define A A" is
\* registered among other macros.
C1_SelfReferenceUnchanged ==
    /\ (macros \in {RegSelf, RegMutual} /\ Finished(1)) =>
          (status[1] = "done" /\ result[1] = text[1])
    /\ Expands(<<"x", " ", "A", " ", "y">>, <<"x", " ", "A", " ", "y">>)

\* ----------------------------------------------------------------- C2

C4_BareParamExpanded ==
    /\ \A k \in Substituted(<<"I", "D">>) : Callback(k).replacement = Callback(k).expanded[1]
    /\ \A k \in Substituted(<<"L", "O", "G">>) :
          Callback(k).replacement =
              Callback(k).expanded[1] \o <<" ">> \o Callback(k).expanded[2]
    /\ \A k \in Substituted(<<"G">>) :
          Callback(k).replacement =
              Call(<<"G">>, Callback(k).expanded[1]) \o <<" ">> \o Callback(k).expanded[1]
    /\ \A k \in Substituted(<<"I", "D">>) \cup Substituted(<<"L", "O", "G">>) \cup Substituted(<<"G">>) :
          k = 1 => \A j \in 1..Len(Callback(k).raw) :
                      Callback(k).expanded[j] = expand_alone(macros, Callback(k).raw[j])
    /\ \A k \in 2..Len(stack[1]) :
          stack[1][k].ret = "body" => Callback(k - 1).name \in in_use
    /\ Expands(<<"I", "D", "(", "F", "O", "O", ")">>, <<"1">>)
    /\ Expands(<<"G", "(", "1", ")">>, <<"G", "(", "1", ")", " ", "1">>)

\* ID(FOO) substituted: the body x has become 1, the expansion of FOO.
C4_Witness ==
    \E k \in Substituted(<<"I", "D">>) :
        /\ Callback(k).raw = <<<<"F", "O", "O">>>>
        /\ Callback(k).replacement = <<"1">>

\* ----------------------------------------------------------------- C5

\* C5: the argument list is split at its top-level commas (not at commas inside
\* brackets or strings) until the declared number of parameters is reached;
\* for a variadic macro everything after that, commas included, belongs to
\* the last argument, for any other macro the text from the first surplus
\* comma on is dropped and the call counts as satisfied: every call that
\* passes the arity test binds the trimmed segments so, LOG("x", 1, 2) gives
\* "x" 1, 2 and ID(1,2) gives 1 without an error.
C5_ArgumentSplitting ==
    /\ \A k \in FnCalls :
          LET macro == macros[Callback(k).name]
              n     == Len(macro.args)
              segs  == SplitTopLevel(ListOf(Callback(k).m0))
          IN  /\ Len(segs) >= n
              /\ Len(Callback(k).raw) = n
              /\ \A j \in 1..n :
                    Callback(k).raw[j] =
                        Strip(IF j = n /\ macro.is_va_args
                              THEN JoinComma(segs, n) ELSE segs[j])
    /\ Expands(<<"L", "O", "G", "(", "\"", "x", "\"", ",", " ", "1", ",", " ", "2", ")">>, <<"\"", "x", "\"", " ", "1", ",", " ", "2">>)
    /\ Expands(<<"I", "D", "(", "1", ",", "2", ")">>, <<"1">>)
    /\ (macros = RegMain /\ text[1] = <<"I", "D", "(", "1", ",", "2", ")">> /\ Finished(1)) => errors = << >>

\* LOG(a,(b,c),d) bound: the bracketed comma does not split, the surplus comma
\* stays in the variadic argument.
C5_Witness ==
    \E k \in FnCalls :
        /\ Callback(k).name = <<"L", "O", "G">>
        /\ Callback(k).raw = <<<<"a">>, <<"(", "b", ",", "c", ")", ",", "d">>>>

\* ----------------------------------------------------------------- C6

\* C6: a call of a function-like macro with fewer arguments than declared
\* parameters is left in the output exactly as written and one error is
\* recorded, whatever the body of the macro: a text that is one such call is
\* returned unchanged with one error.
C6_TooFewArgsLeftAsWritten ==
    (/\ macros = RegMain
     /\ Finished(1)
     /\ WholeCall(text[1])
     /\ Len(SplitTopLevel(CallAt(text[1]).list)) < Len(macros[CallAt(text[1]).name].args))
        => /\ status[1] = "done"
           /\ result[1] = text[1]
           /\ Len(errors) = 1

\* ----------------------------------------------------------------- C7

\* C7: expansion is gated on is_wellformed: a macro whose body does not
\* re-tokenize without residue is never substituted into but emitted verbatim;
\* a text that is one call of such a macro returns the call or the body as
\* written.
C7_MalformedEmittedVerbatim ==
    (/\ macros = RegMain
     /\ Finished(1)
     /\ WholeCall(text[1])
     /\ ~macros[CallAt(text[1]).name].is_wellformed)
        => /\ status[1] = "done"
           /\ result[1] \in {text[1], macros[CallAt(text[1]).name].body}

\* ----------------------------------------------------------------- C8

\* C8: two top-level expand calls on one registry, on two threads, do not
\* touch each other's recursion guard: under every interleaving each call
\* returns what it returns when run alone, and raises only if it raises alone.
C8_GuardPerCall ==
    \A t \in Threads :
        /\ status[t] = "done" => result[t] = expand_alone(macros, text[t])
        /\ status[t] = "raised" => raises_alone(macros, text[t])

\* ----------------------------------------------------------------- C9

\* C9: expand terminates for every registry and text, self-referential and
\* mutually recursive macros and calls nested in their own arguments included:
\* the call stack stays below MaxDepth frames and the call eventually returns
\* or raises.
C9_ExpandTerminates ==
    /\ [](Len(stack[1]) < MaxDepth)
    /\ <>(Finished(1))

\* G(G(1)), with G(x) = G(x) x, has returned.
C9_Witness ==
    /\ macros = RegMain
    /\ text[1] = <<"G", "(", "G", "(", "1", ")", ")">>
    /\ status[1] = "done"
    /\ result[1] = <<"G", "(", "G", "(", "1", ")", " ", "1", ")", " ", "G", "(", "1", ")", " ", "1">>


\* ------------------------------------------------ claims on the Codebase

\* The sightings of name n upserted into a bucket ("names" or "types"), in
\* the order of the calls.
Sightings(bucket, n) ==
    SelectSeq(codebase.upserts, LAMBDA u : u.bucket = bucket /\ u.other.name = n)

\* The Definition the map holds for n.
Stored(map, n) == codebase.defs[map[n]]

SomePrivate(bucket, n) ==
    \E i \in DOMAIN Sightings(bucket, n) : Truthy(Sightings(bucket, n)[i].other.is_private)

\* C11: after any sequence of sightings of one name upserted into names or
\* types, the stored Definition has is_private true if at least one of the
\* sightings had is_private true, in whatever order they arrived.
C11_PrivateSightingMakesPrivate ==
    /\ \A n \in DOMAIN codebase.names :
          SomePrivate("names", n) => Truthy(Stored(codebase.names, n).is_private)
    /\ \A n \in DOMAIN codebase.types :
          SomePrivate("types", n) => Truthy(Stored(codebase.types, n).is_private)


\* The higher-priority one of two sightings with the state of the other
\* folded into it.
Folded(a, b) ==
    IF get_priority(a) < get_priority(b) THEN update_body(b, a).self
    ELSE update_body(a, b).self

TwoSightings(bucket, n) ==
    /\ Len(Sightings(bucket, n)) = 2
    /\ get_priority(Sightings(bucket, n)[1].other) # get_priority(Sightings(bucket, n)[2].other)

\* C12: when two sightings of one name with different priorities are upserted
\* into names or types, the stored Definition is the higher-priority sighting
\* with the lower-priority sighting's state folded into it.
C12_HigherPriorityStored ==
    /\ \A n \in DOMAIN codebase.names :
          TwoSightings("names", n) =>
             Stored(codebase.names, n) =
                Folded(Sightings("names", n)[1].other, Sightings("names", n)[2].other)
    /\ \A n \in DOMAIN codebase.types :
          TwoSightings("types", n) =>
             Stored(codebase.types, n) =
                Folded(Sightings("types", n)[1].other, Sightings("types", n)[2].other)


\* The scans of a prototype of f and of a body-bearing definition of f.
ProtoScans ==
    {[text |-> <<FunctionStatement(k, pProto)>>, file |-> fH] : k \in {{"decl"}, {"function_def"}}}

DefScans == {[text |-> <<FunctionStatement({"function_def"}, pDef)>>, file |-> f] : f \in {fH, fC}}

ProtoAndDefScanned ==
    /\ Len(codebase.scanned) = 2
    /\ \/ codebase.scanned[1] \in ProtoScans /\ codebase.scanned[2] \in DefScans
       \/ codebase.scanned[1] \in DefScans /\ codebase.scanned[2] \in ProtoScans

\* The file of the body-bearing definition among the two scans.
DefFile == IF codebase.scanned[1] \in DefScans THEN codebase.scanned[1].file
           ELSE codebase.scanned[2].file

\* C13: scanning a prototype of f and a body-bearing definition of f, in
\* either order, leaves exactly one entry names["f"], of kind "function", with
\* details.body not None, and the entry is the same for both orders: the
\* Definition of the body-bearing sighting.
C13_PrototypeAndDefinition ==
    ProtoAndDefScanned =>
        /\ DOMAIN codebase.names = {nF}
        /\ Len(codebase.defs) = 1
        /\ Stored(codebase.names, nF).kind = "function"
        /\ Stored(codebase.names, nF).details.body # None
        /\ Stored(codebase.names, nF) =
              Definition(nF, "function", DefFile, 0, nFoo, TriNone, pDef)

\* C13 witness: the prototype, classified as a function definition, was
\* scanned first and the definition second.
C13_Witness ==
    /\ ProtoAndDefScanned
    /\ codebase.scanned[1] = [text |-> <<FunctionStatement({"function_def"}, pProto)>>, file |-> fH]
    /\ nF \in DOMAIN codebase.names


\* C15: scanning a file of module foo that defines the un-annotated top-level
\* record "struct __wt_foo { int x; }" gives types["__wt_foo"] with
\* is_private true and module "foo".
C15_TopLevelRecordPrivate ==
    codebase.scanned = <<[text |-> <<RecordStatement({"record"}, rWtFoo)>>, file |-> fH]>> =>
        /\ nWtFoo \in DOMAIN codebase.types
        /\ Truthy(Stored(codebase.types, nWtFoo).is_private)
        /\ Stored(codebase.types, nWtFoo).module = nFoo

\* Every key of the restricted map is a key of the full map and refers to the
\* very same Definition.
SubsetView(restricted, full) ==
    \A n \in DOMAIN restricted : n \in DOMAIN full /\ restricted[n] = full[n]

AllPrivate(restricted) ==
    \A n \in DOMAIN restricted : Truthy(codebase.defs[restricted[n]].is_private)

PrivateRestricted(restricted, full) ==
    \A n \in DOMAIN full : Truthy(codebase.defs[full[n]].is_private) => n \in DOMAIN restricted

\* C19: after any sequence of updateFromText calls, types_restricted and
\* names_restricted are subset views of types and names, every Definition in
\* a restricted map has is_private true, and every Definition of types or
\* names with is_private true is in the corresponding restricted map.
C19_RestrictedIsPrivateSubset ==
    /\ SubsetView(codebase.types_restricted, codebase.types)
    /\ SubsetView(codebase.names_restricted, codebase.names)
    /\ AllPrivate(codebase.types_restricted)
    /\ AllPrivate(codebase.names_restricted)
    /\ PrivateRestricted(codebase.types_restricted, codebase.types)
    /\ PrivateRestricted(codebase.names_restricted, codebase.names)


\* ------------------------------------------- claims on single calls

NoAnnotation == [kind |-> "none", module |-> None]

\* The annotation each comment of the model carries, read off its text.
AnnotationOf(c) ==
    IF c = cPrivate THEN [kind |-> "private", module |-> None]
    ELSE IF c = cPublicBar THEN [kind |-> "public", module |-> Some(<<"b", "a", "r">>)]
    ELSE IF c = cPrivateFooPublic THEN [kind |-> "private", module |-> Some(<<"f", "o", "o">>)]
    ELSE IF c = cPublicNoModule THEN [kind |-> "public", module |-> None]
    ELSE NoAnnotation

\* The naming convention of each name of the model, read off its text.
ConventionOf(n) ==
    IF n = nWtFoo THEN [kind |-> "public", module |-> Some(<<"f", "o", "o">>)]
    ELSE IF n = nWtX THEN [kind |-> "public", module |-> None]
    ELSE IF n = nWtiBarX THEN [kind |-> "private", module |-> Some(<<"b", "a", "r">>)]
    ELSE IF n = nWTX THEN [kind |-> "private", module |-> None]
    ELSE NoAnnotation

OptAnnotation(c) == IF c = None THEN NoAnnotation ELSE AnnotationOf(c[1])

\* The result the precedence rules give for the arguments of a call.
Resolved(thing, default_private, default_module, is_nested) ==
    LET pre  == OptAnnotation(thing.preComment)
        post == OptAnnotation(thing.postComment)
        conv == ConventionOf(thing.name)
        pick == IF pre.kind # "none" THEN pre
                ELSE IF post.kind # "none" THEN post
                ELSE IF is_nested THEN conv
                ELSE NoAnnotation
    IN  IF pick.kind = "none" THEN <<default_private, default_module>>
        ELSE <<IF pick.kind = "private" THEN TriTrue ELSE TriFalse,
               IF pick.module = None THEN default_module ELSE pick.module[1]>>

\* C14: _get_visibility_and_module resolves in strict precedence: an
\* annotation of the leading comment, else one of the trailing comment, gives
\* (private iff #private, the module in parentheses or else the default
\* module); otherwise, only when is_nested, the name prefix gives the
\* visibility and the module tag or the default module; otherwise the
\* defaults (default_private, default_module) are returned.
C14_VisibilityPrecedence ==
    call.fn = "_get_visibility_and_module" =>
        call.ret = Resolved(call.args[1], call.args[2], call.args[3], call.args[4])

\* C14 witness: both comments carry an annotation, the name carries the
\* private prefix and the thing is nested; the leading comment decided.
C14_Witness ==
    /\ call.fn = "_get_visibility_and_module"
    /\ call.args = <<[name |-> nWtiBarX, preComment |-> Some(cPublicNoModule),
                      postComment |-> Some(cPrivateFooPublic)],
                     TriTrue, <<"b", "a", "r">>, TRUE>>
    /\ call.ret = <<TriFalse, <<"b", "a", "r">>>>


\* The structural fields on which receiver and argument of update disagree;
\* a function body counts only when both bodies are present.
FunctionMismatches(self, other) ==
    {f \in {"typename", "name", "args"} : self[f] # other[f]}
    \cup {f \in {"body"} : self.body # None /\ other.body # None /\ self.body[1] # other.body[1]}

MacroMismatches(self, other) ==
    {f \in {"name"} : self.name # other.name}
    \cup {f \in {"args"} : self.has_args # other.has_args \/ self.args # other.args}
    \cup {f \in {"body"} : self.has_body # other.has_body \/ self.body # other.body}

\* The receiver with its comment fields f filled from other where None.
CommentsFilled(self, other, fs) ==
    [f \in DOMAIN self |->
        IF f \in fs /\ self[f] = None THEN other[f] ELSE self[f]]

\* C20: FunctionParts.update(other) and MacroParts.update(other) leave name,
\* type, argument list and body of the receiver as they are, return one
\* message per mismatching structural field (a function body only when both
\* bodies are present and differ), and change nothing but preComment and
\* postComment, which are taken from other only when the receiver's is None.
C20_UpdateKeepsReceiver ==
    /\ call.fn = "FunctionParts.update" =>
          /\ Len(call.ret.errors) = Cardinality(FunctionMismatches(call.args[1], call.args[2]))
          /\ call.ret.self = CommentsFilled(call.args[1], call.args[2], {"preComment", "postComment"})
    /\ call.fn = "MacroParts.update" =>
          /\ Len(call.ret.errors) = Cardinality(MacroMismatches(call.args[1], call.args[2]))
          /\ call.ret.self = CommentsFilled(call.args[1], call.args[2], {"preComment"})

\* C20 witness: a prototype is updated with a definition of another return
\* type: the body difference is no mismatch, the missing leading comment is
\* taken and the trailing comment kept.
C20_Witness ==
    /\ call.fn = "FunctionParts.update"
    /\ call.args[1] = FunctionParts(<<<<"v", "o", "i", "d">>>>, nF, <<"i", "n", "t">>, None, None, Some(cNote))
    /\ call.args[2] = FunctionParts(<<<<"i", "n", "t">>>>, nF, <<"i", "n", "t">>, Some(<<"r", "e", "t", "u", "r", "n", ";">>), Some(cPrivate), None)
    /\ call.ret.errors = <<"retType mismatch">>
    /\ call.ret.self = FunctionParts(<<<<"v", "o", "i", "d">>>>, nF, <<"i", "n", "t">>, None, Some(cPrivate), Some(cNote))


\* ------------------------------------------------- claims on untypedef

\* The names the chain of typedefs starting at n passes, n itself first, as
\* far as k steps.
RECURSIVE Chain(_, _)
Chain(n, k) ==
    IF k = 0 \/ n \notin DOMAIN codebase.typedefs THEN <<n>>
    ELSE <<n>> \o Chain(codebase.typedefs[n], k - 1)

\* The preference among the names cs of a chain with final target last: the
\* entries of types, else the entries of fields, else the final target.
PreferredAmong(cs, last) ==
    IF cs \cap DOMAIN codebase.types # {} THEN cs \cap DOMAIN codebase.types
    ELSE IF cs \cap DOMAIN codebase.fields # {} THEN cs \cap DOMAIN codebase.fields
    ELSE {last}

\* The names the claimed preference allows untypedef(n) to return, whether
\* the name n itself counts as a name of its chain or only its targets do.
Preferred(n) ==
    LET c == Chain(n, Cardinality(DOMAIN codebase.typedefs) + 1)
    IN  IF Len(c) = 1 THEN {n}
        ELSE PreferredAmong({c[i] : i \in 1..Len(c)}, c[Len(c)])
             \cup PreferredAmong({c[i] : i \in 2..Len(c)}, c[Len(c)])

\* C16: untypedef(name) returns by preference a name of the chain that is a
\* known record type (an entry of types), else one that is a known
\* field-bearing type (an entry of fields), else the final target of the
\* chain; a name that is not a typedef is returned itself.
C16_UntypedefPreference ==
    ut.pc = "returned" => ut.ret \in Preferred(ut.arg)

\* C17: for every typedefs map that scanning builds, a call of untypedef
\* returns.
C17_UntypedefTerminates == (ut.pc = "loop") ~> (ut.pc = "returned")


\* --------------------------------------------------- claims on the driver

\* C18: the exit status of the driver is nonzero whenever the error tally is
\* nonzero at the end of the run, and zero when the tally is zero and no
\* exception occurred.
C18_ExitStatusFollowsTally ==
    drv.pc = "exited" =>
        /\ drv.errors # 0 => drv.exit # 0
        /\ (drv.errors = 0 /\ drv.raised = "None") => drv.exit = 0


\* ------------------------------------------------ claims on record members

\* C21: the field Definition of each member of a record added by _add_record
\* has the is_private and module that the visibility precedence gives for
\* that member: an annotation of the member's own comments, else the prefix
\* of the member's own name, else the defaults.
C21_FieldVisibilityOfMember ==
    \A i \in DOMAIN codebase.upserts :
        codebase.upserts[i].bucket = "fields" =>
            <<codebase.upserts[i].other.is_private, codebase.upserts[i].other.module>> =
                get_visibility_and_module(codebase.upserts[i].other.details, TriNone,
                                          codebase.upserts[i].other.file.module, TRUE)


\* ------------------------------------------------ claims on the guard

\* The names on the in-use stack.
OnStack == {in_use_stack[i] : i \in DOMAIN in_use_stack}

\* The callback of the top frame is between "_in_use.add(name)" and
\* "_in_use_stack.append(name)", or between "_in_use_stack.pop()" and
\* "_in_use.remove(name)": the two statements of one guard entry or exit.
InGuardStep(t) ==
    /\ stack[t] # << >>
    /\ Top(t).callback.pc \in {"obj_push", "fn_push", "obj_rm", "fn_rm"}

\* C22: during a top-level expand call the in-use set is the set of names on
\* the in-use stack (between the two statements of a guard entry or exit the
\* set holds, besides, the one name being entered or left) and the stack
\* holds no name twice; when expand has returned or raised, set and stack are
\* empty, so no guard entry is left for the next call.
C22_GuardSetIsStack ==
    /\ Cardinality(OnStack) = Len(in_use_stack)
    /\ status[1] = "run" =>
          in_use = OnStack \cup (IF InGuardStep(1) THEN {Top(1).callback.name} ELSE {})
    /\ (status[1] = "run" /\ InGuardStep(1)) => Top(1).callback.name \notin OnStack
    /\ Finished(1) => in_use = {} /\ in_use_stack = << >>

\* C22 witness: the body of Q is being scanned inside the expansion of P:
\* two guard entries are in force.
C22_Witness ==
    /\ Scanning(1)
    /\ in_use_stack = <<<<"P">>, <<"Q">>>>
    /\ in_use = {<<"P">>, <<"Q">>}


\* ------------------------------------------- claims on what expand skips

\* The texts that are one comment or one literal and nothing else.
OneLiteral ==
    {tBlockComment, tLineComment, tCharLiteral, tString, tLineCommentAtEnd,
     tBlockCommentStars, <<"\"", "A", "\"">>}

\* C23: expand copies comments, string literals and character literals to
\* the output as they are, whatever macro names they hold; a function-like
\* name without a parenthesized argument list stays as it is; with an empty
\* registry expand returns its input.
C23_LiteralsVerbatim ==
    /\ (text[1] \in OneLiteral /\ Finished(1)) =>
          (status[1] = "done" /\ result[1] = text[1])
    /\ Expands(tCommentThenName, <<"x", " ", "/", "*", " ", "F", "O", "O", " ", "*", "/", " ", "1">>)
    /\ Expands(tNameNoList, tNameNoList)
    /\ Expands(tNameThenCall, <<"I", "D", " ", "1">>)
    /\ (macros = RegEmpty /\ Finished(1)) => (status[1] = "done" /\ result[1] = text[1])


\* ------------------------------------------------ claims on the carried type

\* The Codebase after one call of updateFromText on text, in the header.
ScannedOnly(t) == codebase.scanned = <<[text |-> t, file |-> fH]>>

\* C24: the carried type is set when a parsed declarator ends with ",", the
\* following declarator without a type of its own receives it, and the first
\* following statement that does not end in "," clears it, whether or not it
\* parses as a declarator; the statements after that are dispatched by their
\* own classification: the function after "typedef int a," and an unparsed
\* statement is recorded.
C24_CarriedTypeCleared ==
    /\ ScannedOnly(tTypedefTwo) =>
          codebase.typedefs = Put(Put(EmptyMap, <<"a">>, <<"i", "n", "t">>), <<"b">>, <<"i", "n", "t">>)
    /\ ScannedOnly(tTypedefThenFunction) =>
          /\ codebase.typedefs = Put(EmptyMap, <<"a">>, <<"i", "n", "t">>)
          /\ nF \in DOMAIN codebase.names


\* ------------------------------------------------ claims on skipped statements

\* The texts of one statement that is a prototype (however classified), a
\* bare declaration, or of no known shape.
SkippedTexts ==
    {<<FunctionStatement({"decl"}, pProto)>>,
     <<FunctionStatement({"function_def"}, pProto)>>,
     tDeclaration, tUnknown}

\* The Codebase after the first k of the calls of updateFromText made.
RECURSIVE Replay(_)
Replay(k) ==
    IF k = 0 THEN Codebase
    ELSE updateFromText(Replay(k - 1), codebase.scanned[k].text, codebase.scanned[k].file)

Tables(c) ==
    <<c.defs, c.types, c.types_restricted, c.fields, c.names, c.names_restricted,
      c.typedefs, c.macros, c.warnings>>

LastScanned == codebase.scanned[Len(codebase.scanned)]

CallsOf(n) == {i \in DOMAIN codebase.registered : codebase.registered[i].macro.name = n}

AddsOf(n) == {i \in CallsOf(n) : codebase.registered[i].op = "add"}

Least(S) == CHOOSE i \in S : \A j \in S : i <= j

Greatest(S) == CHOOSE i \in S : \A j \in S : j <= i

\* The call whose macro is registered under n: the last add, or with no add
\* the first upsert.
Anchor(n) == IF AddsOf(n) # {} THEN Greatest(AddsOf(n)) ELSE Least(CallsOf(n))

\* The first comment supplied from that call on, None if there is none.
CommentSince(n) ==
    LET S == {i \in CallsOf(n) : i >= Anchor(n) /\ codebase.registered[i].macro.preComment # None}
    IN  IF S = {} THEN None ELSE codebase.registered[Least(S)].macro.preComment

\* C27: the macro registered under a name is that of the last add of the
\* name, or with no add that of the first upsert; later upserts change
\* nothing of it but a missing preComment, and nothing is added to
\* Macros.errors.
C27_FirstUpsertStays ==
    /\ DOMAIN codebase.macros = {codebase.registered[i].macro.name : i \in DOMAIN codebase.registered}
    /\ \A n \in DOMAIN codebase.macros :
          codebase.macros[n] =
              MacroPartsCommented(codebase.registered[Anchor(n)].macro, CommentSince(n))
    /\ codebase.macro_errors = << >>

\* C27 witness: "#define A A" is upserted, then "#define A B" with a comment,
\* then "#define A B" without: A stays A and has the comment.
C27_Witness ==
    /\ codebase.registered =
          <<[op |-> "upsert", macro |-> MacroPartsCommented(mA, None)],
            [op |-> "upsert", macro |-> MacroPartsCommented(mAB, Some(cNote))],
            [op |-> "upsert", macro |-> MacroPartsCommented(mAB, None)]>>
    /\ codebase.macros[<<"A">>] = MacroPartsCommented(mA, Some(cNote))


\* ------------------------------------------------------- claims on the cache

\* The files whose modification time is_cached is said to compare.
Watched == IF cache.deps = {} THEN {"src"} ELSE cache.deps

\* Before the call the cache file existed and no watched file was more than
\* 1 second newer than it.
FreshBefore ==
    /\ cache.last.before # None
    /\ \A f \in Watched : cache.mtime[f] - cache.last.before[1].mtime <= 1

\* The object is served from the cache only when the cache file was fresh.
ServedOnlyFresh ==
    (cache.use_cache /\ ~cache.last.called) =>
        (FreshBefore /\ cache.last.ret = cache.last.before[1].obj)

\* Otherwise the wrapped function is called, its result stored and returned.
StaleRecomputed ==
    (cache.use_cache /\ ~FreshBefore) =>
        /\ cache.last.called
        /\ cache.last.ret = func(cache)
        /\ cache.file = Some([mtime |-> cache.now, obj |-> cache.last.ret])

\* With use_cache false the cache is neither read nor written.
UnusedUntouched ==
    ~cache.use_cache =>
        /\ cache.last.called /\ cache.last.ret = func(cache)
        /\ ~cache.last.read /\ ~cache.last.wrote /\ cache.file = cache.last.before

\* No object is served that was stored more than 1 second before the source
\* was last modified.
NeverStale ==
    ~cache.last.called => cache.mtime["src"] - cache.last.before[1].mtime <= 1

\* C26: when a wrapped call has returned, it served the stored object only if
\* the cache file existed and no watched file was more than 1 second newer;
\* otherwise it called the function, stored and returned its result; with
\* use_cache false it left the cache alone; and it never served an object
\* stored more than 1 second before the source was modified.
C26_CacheFreshness ==
    cache.last.fn = "call" =>
        ServedOnlyFresh /\ StaleRecomputed /\ UnusedUntouched /\ NeverStale

====
